---- MODULE Spec2Model ----
(***************************************************************************)
(* A model of flare-engine's PowerManager (src/src/PowerManager.cpp): the  *)
(* power-definition loader, the cost and precondition pipeline, the six    *)
(* activation strategies and the passive trigger scanner.                  *)
(*                                                                         *)
(* Conventions.  FPoint coordinates are fixed-point integers, 1000 units   *)
(* per map tile.  Angles are kept in half-degrees so that the fan offset   *)
(* ((1 - count)/2 + i) * missile_angle stays an integer.  Every handler of *)
(* the program is an operator from a world record (the PowerManager, the   *)
(* acting StatBlock and the collaborators it touches) to the world after   *)
(* the call; the values rand() yields during the call are an argument.     *)
(***************************************************************************)
EXTENDS Integers, Sequences, FiniteSets, TLC

VARIABLES
    powers,               \* PowerManager::powers, the power table (index 0..size-1)
    stats,                \* the acting StatBlock (src_stats)
    hazards,              \* PowerManager::hazards queue
    enemies,              \* PowerManager::enemies spawn queue
    loot,                 \* PowerManager::loot queue
    used_items,           \* PowerManager::used_items
    used_equipped_items,  \* PowerManager::used_equipped_items
    party_buffs,          \* PowerManager::party_buffs queue
    log_msg,              \* PowerManager::log_msg
    colmap,               \* the MapCollision grid behind PowerManager::collider
    inpt,                 \* InputState: action bar lock and its call counters
    snd,                  \* number of SoundManager::play calls
    errors,               \* number of errors reported (infile.error / logError)
    trace,                \* powers handed to activate by the running scan, in order
    infile,               \* the lines of powers/powers.txt
    last                  \* the call that produced this state: name, arguments, result, state before

vars == <<powers, stats, hazards, enemies, loot, used_items, used_equipped_items,
          party_buffs, log_msg, colmap, inpt, snd, errors, trace, infile, last>>

-----------------------------------------------------------------------------
(* Enumerations of PowerManager.h, by the names the source uses. *)

POWTYPE_FIXED == 0
POWTYPE_MISSILE == 1
POWTYPE_REPEATER == 2
POWTYPE_SPAWN == 3
POWTYPE_TRANSFORM == 4
POWTYPE_BLOCK == 5

TRIGGER_BLOCK == 0
TRIGGER_HIT == 1
TRIGGER_HALFDEATH == 2
TRIGGER_JOINCOMBAT == 3
TRIGGER_DEATH == 4

STARTING_POS_SOURCE == 0
STARTING_POS_TARGET == 1
STARTING_POS_MELEE == 2

SOURCE_TYPE_HERO == 0
SOURCE_TYPE_NEUTRAL == 1
SOURCE_TYPE_ENEMY == 2
SOURCE_TYPE_ALLY == 3

BASE_DAMAGE_NONE == 0
BASE_DAMAGE_MELEE == 1
BASE_DAMAGE_RANGED == 2
BASE_DAMAGE_MENT == 3

STAT_MODIFIER_MODE_MULTIPLY == 0
STAT_MODIFIER_MODE_ADD == 1
STAT_MODIFIER_MODE_ABSOLUTE == 2

-----------------------------------------------------------------------------
(* Bounds of the model. *)

MaxCount == 3      \* largest power.count explored
MaxDelay == 2      \* largest power.delay explored
MaxCost == 1       \* largest requires_mp / requires_hp explored
MaxStat == 2       \* largest hp / mp of the actor explored
MapMax == 3        \* the collision grid has tiles 0..MapMax in x and in y
MaxDepth == 3      \* nested activate calls (post_power chains) followed before giving up
MaxEffects == 2    \* a scan starts only while the effect stack holds at most this many
MaxLines == 5      \* longest powers.txt read
MaxQuantity == 2   \* largest quantity a requires_equipped_item line asks for
MaxQueue == 3      \* costs are paid only while used_equipped_items is at most this long
MaxTable == 3      \* largest power table whose ids are verified
MaxErrors == 2     \* ids are verified only while fewer errors than this were reported
MaxFieldLines == 4 \* longest powers.txt of single-valued field lines read
MaxSkipLines == 4  \* longest powers.txt with invalid ids read

-----------------------------------------------------------------------------
(* Arithmetic as C++ does it. *)

\* int / int truncates toward zero
CDiv(a, b) ==
    IF (a >= 0) = (b > 0) THEN a \div b ELSE -((-a) \div b)

\* static_cast<unsigned>(i) >= n for a 32-bit int i and a container size n: a negative
\* i wraps to 2^32 + i, which is at least 2^31 and so above every size
UnsignedAtLeast(i, n) ==
    IF i < 0 THEN TRUE ELSE i >= n

\* static_cast<int>(float) of a fixed-point coordinate: the tile index
ToTile(c) ==
    CDiv(c, 1000)

Pt(x, y) == [x |-> x, y |-> y]

\* floor(FPoint): both coordinates rounded down to the tile corner
FloorPt(p) ==
    Pt((p.x \div 1000) * 1000, (p.y \div 1000) * 1000)

\* the centre of tile (tx, ty)
Centre(tx, ty) == Pt(tx * 1000 + 500, ty * 1000 + 500)

Abs(i) == IF i < 0 THEN -i ELSE i

Max(a, b) == IF a > b THEN a ELSE b

RECURSIVE Repeat(_, _)
\* n copies of e, as a sequence (n <= 0 gives the empty sequence)
Repeat(e, n) ==
    IF n <= 0 THEN <<>> ELSE <<e>> \o Repeat(e, n - 1)

-----------------------------------------------------------------------------
(* The MapCollision collaborator, by its interface: a grid of tiles that   *)
(* are "empty", a "wall", or blocked by an "entity".                        *)

Tiles == (0..MapMax) \X (0..MapMax)

is_outside_map(tx, ty) ==
    ~(tx \in 0..MapMax /\ ty \in 0..MapMax)

\* MapCollision::is_wall(x, y): a wall tile, or a point outside the map
is_wall(cm, x, y) ==
    \/ is_outside_map(ToTile(x), ToTile(y))
    \/ cm[<<ToTile(x), ToTile(y)>>] = "wall"

\* MapCollision::is_empty(x, y): inside the map and blocked by nothing
is_empty(cm, x, y) ==
    /\ ~is_outside_map(ToTile(x), ToTile(y))
    /\ cm[<<ToTile(x), ToTile(y)>>] = "empty"

\* MapCollision::is_valid_position(x, y, MOVEMENT_NORMAL, is_hero)
is_valid_position(cm, x, y) ==
    is_empty(cm, x, y)

\* MapCollision::block(x, y, false): an empty tile becomes entity-blocked
block(cm, x, y) ==
    IF is_empty(cm, x, y)
    THEN [cm EXCEPT ![<<ToTile(x), ToTile(y)>>] = "entity"]
    ELSE cm

\* MapCollision::unblock(x, y): an entity-blocked tile becomes empty
unblock(cm, x, y) ==
    IF ~is_outside_map(ToTile(x), ToTile(y)) /\ cm[<<ToTile(x), ToTile(y)>>] = "entity"
    THEN [cm EXCEPT ![<<ToTile(x), ToTile(y)>>] = "empty"]
    ELSE cm

\* the tiles get_random_neighbor collects, in its loop order (i outer, j inner)
NeighborTiles(cm, target, range, ignore_blocked) ==
    LET w == 2 * range + 1
        cand(k) == Centre(ToTile(target.x) + (k \div w) - range,
                          ToTile(target.y) + (k % w) - range)
        ok(k) == /\ ~(k \div w = range /\ k % w = range)
                 /\ (ignore_blocked \/ is_valid_position(cm, cand(k).x, cand(k).y))
        idx == SelectSeq([k \in 1..(w * w) |-> k - 1], ok)
    IN  [n \in 1..Len(idx) |-> cand(idx[n])]

\* MapCollision::get_random_neighbor(target, range, ignore_blocked); pick is rand()
get_random_neighbor(cm, target, range, ignore_blocked, pick) ==
    LET valid_tiles == NeighborTiles(cm, target, range, ignore_blocked)
    IN  IF Len(valid_tiles) > 0
        THEN valid_tiles[(pick % Len(valid_tiles)) + 1]
        ELSE target

-----------------------------------------------------------------------------
(* Utils: calcTheta, calcDirection, calcVector; cos and sin on the eight   *)
(* compass bearings, as fixed-point factors of 1000.                        *)

Sign(i) == IF i > 0 THEN 1 ELSE IF i < 0 THEN -1 ELSE 0

\* calcTheta(x1, y1, x2, y2) in degrees, for points on a common row, column or diagonal
calcTheta(x1, y1, x2, y2) ==
    LET dx == x2 - x1
        dy == y2 - y1
    IN  IF dx = 0 THEN (IF dy > 0 THEN 90 ELSE -90)
        ELSE IF dy = 0 THEN (IF dx > 0 THEN 0 ELSE 180)
        ELSE IF dx > 0 THEN (IF dy > 0 THEN 45 ELSE -45)
        ELSE (IF dy > 0 THEN 135 ELSE -135)

\* 1000 * cos(theta) for theta a multiple of 45 degrees
Cos1000(theta) ==
    CASE theta \in {0} -> 1000
      [] theta \in {45, -45} -> 707
      [] theta \in {90, -90} -> 0
      [] theta \in {135, -135} -> -707
      [] OTHER -> -1000

\* 1000 * sin(theta) for theta a multiple of 45 degrees
Sin1000(theta) ==
    CASE theta \in {0, 180} -> 0
      [] theta \in {45, 135} -> 707
      [] theta = 90 -> 1000
      [] theta \in {-45, -135} -> -707
      [] OTHER -> -1000

\* calcDirection(x0, y0, x1, y1): the facing 0..7 toward the target
calcDirection(x0, y0, x1, y1) ==
    LET theta == calcTheta(x0, y0, x1, y1)
    IN  ((theta + 360) % 360) \div 45

\* calcVector(pos, direction, dist): the point dist away along the facing
calcVector(pos, direction, dist) ==
    Pt(pos.x + CDiv(dist * Cos1000(IF direction > 4 THEN direction * 45 - 360 ELSE direction * 45), 1000),
       pos.y + CDiv(dist * Sin1000(IF direction > 4 THEN direction * 45 - 360 ELSE direction * 45), 1000))

\* the points of the map on a common row, column or diagonal with p, and p itself
Aims(p) ==
    {Centre(t[1], t[2]) : t \in {u \in Tiles :
        LET dx == u[1] - ToTile(p.x)
            dy == u[2] - ToTile(p.y)
        IN  dx = 0 \/ dy = 0 \/ Abs(dx) = Abs(dy)}}

-----------------------------------------------------------------------------
(* Data model: Power, Hazard, EffectDef, StatBlock.                         *)

\* powers.size() of a table kept as a function on 0..size-1
TableSize(table) == Cardinality(DOMAIN table)

\* Power::Power(), the value of a table slot no record has written
DefaultPower ==
    [type |-> -1, count |-> 1, passive |-> FALSE, passive_trigger |-> -1,
     source_type |-> -1,
     requires_mp |-> 0, requires_hp |-> 0, sacrifice |-> FALSE,
     requires_item |-> -1, requires_item_quantity |-> 0,
     requires_equipped_item |-> -1, requires_equipped_item_quantity |-> 0,
     sfx_index |-> -1, directional |-> FALSE, visual_random |-> 0, visual_option |-> 0,
     speed |-> 0, lifespan |-> 0, use_hazard |-> FALSE, no_attack |-> FALSE,
     base_damage |-> BASE_DAMAGE_NONE, starting_pos |-> STARTING_POS_SOURCE,
     target_range |-> 0, trait_crits_impaired |-> 0, hp_steal |-> 0, mp_steal |-> 0,
     missile_angle |-> 0, angle_variance |-> 0, speed_variance |-> 0, delay |-> 0,
     transform_duration |-> 0, manual_untransform |-> FALSE, keep_equipment |-> FALSE,
     untransform_on_hit |-> FALSE,
     buff |-> FALSE, buff_teleport |-> FALSE, buff_party |-> FALSE,
     post_effects |-> <<>>, post_power |-> 0, wall_power |-> 0,
     spawn_type |-> "", target_neighbor |-> 0,
     mod_damage_mode |-> -1, mod_damage_value_min |-> 0, mod_damage_value_max |-> 0,
     loot |-> <<>>]

\* Hazard::Hazard(collider), the fields PowerManager sets
NewHazard ==
    [power_index |-> 0, source_type |-> 0, crit_chance |-> 0, accuracy |-> 0,
     dmg_min |-> 0, dmg_max |-> 0, directional |-> FALSE, animationKind |-> 0,
     lifespan |-> 0, base_speed |-> 0, active |-> TRUE,
     trait_crits_impaired |-> 0, hp_steal |-> 0, mp_steal |-> 0,
     pos |-> Pt(0, 0), angle |-> 0, delay_frames |-> 0,
     post_power |-> 0, wall_power |-> 0, loot |-> <<>>, missile |-> FALSE]

\* the effect definitions loadEffects leaves in PowerManager::effects
EffectTable ==
    << [id |-> "ward", type |-> "shield"],
       [id |-> "mend", type |-> "heal"],
       [id |-> "push", type |-> "knockback"],
       [id |-> "glow", type |-> "glow"] >>

\* PowerManager::getEffectDef(id): the index of the first entry with that id, 0 for NULL
getEffectDef(effects, id) ==
    IF \E i \in 1..Len(effects) : effects[i].id = id
    THEN CHOOSE i \in 1..Len(effects) :
            /\ effects[i].id = id
            /\ \A j \in 1..(i - 1) : effects[j].id # id
    ELSE 0

\* EffectManager of a StatBlock: the effect stack and the one-shot trigger flags
NewEffects ==
    [list |-> <<>>, triggered_others |-> FALSE, triggered_block |-> FALSE,
     triggered_hit |-> FALSE, triggered_halfdeath |-> FALSE,
     triggered_joincombat |-> FALSE, triggered_death |-> FALSE]

\* a StatBlock standing on the centre of tile (1, 1), with full hp and mp
NewStatBlock ==
    [hero |-> TRUE, hero_ally |-> FALSE, hp |-> MaxStat, mp |-> MaxStat,
     hp_max |-> MaxStat, dmg_ment_min |-> 1, dmg_ment_max |-> 2,
     dmg_melee_min |-> 1, dmg_melee_max |-> 3, dmg_ranged_min |-> 2, dmg_ranged_max |-> 4,
     crit |-> 5, accuracy |-> 90,
     pos |-> Centre(1, 1), direction |-> 0, melee_range |-> 1000, speed_default |-> 1,
     transformed |-> FALSE, transform_type |-> "", transform_duration |-> 0,
     manual_untransform |-> FALSE, transform_with_equipment |-> FALSE,
     untransform_on_hit |-> FALSE,
     in_combat |-> FALSE, refresh_stats |-> FALSE,
     teleportation |-> FALSE, teleport_destination |-> Pt(0, 0),
     knockback_srcpos |-> Pt(0, 0), knockback_destpos |-> Pt(0, 0),
     effects |-> NewEffects,
     powers_passive |-> <<>>, powers_list_items |-> <<>>]

\* EffectManager::addEffect: an effect instance pushed onto the stack
addEffect(effects, id, type, duration, magnitude, trigger, passive_id, source_type) ==
    [effects EXCEPT !.list = Append(@,
        [id |-> id, type |-> type, duration |-> duration, magnitude |-> magnitude,
         trigger |-> trigger, passive_id |-> passive_id, source_type |-> source_type])]

\* randBetween(minVal, maxVal) with roll the value of rand()
randBetween(minVal, maxVal, roll) ==
    IF minVal >= maxVal THEN minVal ELSE minVal + (roll % (maxVal - minVal + 1))

\* the values rand() yields when no random branch is taken
NoRandom ==
    [variance |-> [i \in 0..MaxCount |-> 0], speed_var |-> 0, pick |-> 0, roll |-> 0]

-----------------------------------------------------------------------------
(* Cost payment.                                                            *)

\* payPowerCost without the search of the pending queue: every payment enqueues
payPowerCostNoFind(w, power_index) ==
    LET p == w.powers[power_index]
        paid == IF w.stats.hero
                THEN [w EXCEPT
                        !.stats.mp = @ - p.requires_mp,
                        !.used_items =
                            IF p.requires_item # -1
                            THEN @ \o Repeat(p.requires_item, p.requires_item_quantity)
                            ELSE @,
                        !.used_equipped_items =
                            IF p.requires_equipped_item # -1
                            THEN @ \o Repeat(p.requires_equipped_item,
                                             p.requires_equipped_item_quantity)
                            ELSE @]
                ELSE w
    IN  [paid EXCEPT !.stats.hp = Max(0, @ - p.requires_hp)]

\* payPowerCost with the hp cost left unfloored
payPowerCostUnfloored(w, power_index) ==
    LET p == w.powers[power_index]
        paid == IF w.stats.hero
                THEN [w EXCEPT
                        !.stats.mp = @ - p.requires_mp,
                        !.used_items =
                            IF p.requires_item # -1
                            THEN @ \o Repeat(p.requires_item, p.requires_item_quantity)
                            ELSE @,
                        !.used_equipped_items =
                            IF /\ p.requires_equipped_item # -1
                               /\ \A k \in 1..Len(@) : @[k] # p.requires_equipped_item
                            THEN @ \o Repeat(p.requires_equipped_item,
                                             p.requires_equipped_item_quantity)
                            ELSE @]
                ELSE w
    IN  [paid EXCEPT !.stats.hp = @ - p.requires_hp]

\* PowerManager::payPowerCost(power_index, src_stats)
payPowerCost(w, power_index) ==
    LET p == w.powers[power_index]
        paid == IF w.stats.hero
                THEN [w EXCEPT
                        !.stats.mp = @ - p.requires_mp,
                        !.used_items =
                            IF p.requires_item # -1
                            THEN @ \o Repeat(p.requires_item, p.requires_item_quantity)
                            ELSE @,
                        !.used_equipped_items =
                            IF /\ p.requires_equipped_item # -1
                               /\ \A k \in 1..Len(@) : @[k] # p.requires_equipped_item
                            THEN @ \o Repeat(p.requires_equipped_item,
                                             p.requires_equipped_item_quantity)
                            ELSE @]
                ELSE w
    IN  [paid EXCEPT !.stats.hp = Max(0, @ - p.requires_hp)]

-----------------------------------------------------------------------------
(* Hazard initialisation and effect application.                            *)

\* PowerManager::limitRange(range, src, target)
limitRange(range, src, target) ==
    IF range > 0
    THEN LET x1 == IF src.x + range < target.x THEN src.x + range ELSE target.x
             x2 == IF src.x - range > x1 THEN src.x - range ELSE x1
             y1 == IF src.y + range < target.y THEN src.y + range ELSE target.y
             y2 == IF src.y - range > y1 THEN src.y - range ELSE y1
         IN  Pt(x2, y2)
    ELSE target

\* initHazard assigning the crit trait and the steal percentages where the code adds them
initHazardOverwriting(w, power_index, target, haz, rnd) ==
    LET p == w.powers[power_index]
        s == w.stats
        source_type ==
            IF p.source_type = -1
            THEN (IF s.hero THEN SOURCE_TYPE_HERO
                  ELSE IF s.hero_ally THEN SOURCE_TYPE_ALLY ELSE SOURCE_TYPE_ENEMY)
            ELSE p.source_type
        base == haz.dmg_max = 0
        dmg_min ==
            IF base /\ p.base_damage = BASE_DAMAGE_MELEE THEN s.dmg_melee_min
            ELSE IF base /\ p.base_damage = BASE_DAMAGE_RANGED THEN s.dmg_ranged_min
            ELSE IF base /\ p.base_damage = BASE_DAMAGE_MENT THEN s.dmg_ment_min
            ELSE haz.dmg_min
        dmg_max ==
            IF base /\ p.base_damage = BASE_DAMAGE_MELEE THEN s.dmg_melee_max
            ELSE IF base /\ p.base_damage = BASE_DAMAGE_RANGED THEN s.dmg_ranged_max
            ELSE IF base /\ p.base_damage = BASE_DAMAGE_MENT THEN s.dmg_ment_max
            ELSE haz.dmg_max
        animationKind ==
            IF p.directional
            THEN calcDirection(s.pos.x, s.pos.y, target.x, target.y)
            ELSE IF p.visual_random # 0 THEN rnd.roll % p.visual_random
            ELSE IF p.visual_option # 0 THEN p.visual_option
            ELSE haz.animationKind
        start ==
            IF p.starting_pos = STARTING_POS_SOURCE THEN s.pos
            ELSE IF p.starting_pos = STARTING_POS_TARGET
                 THEN limitRange(p.target_range, s.pos, target)
            ELSE IF p.starting_pos = STARTING_POS_MELEE
                 THEN calcVector(s.pos, s.direction, s.melee_range)
            ELSE haz.pos
        pos ==
            IF p.target_neighbor > 0
            THEN get_random_neighbor(w.colmap, FloorPt(s.pos), p.target_neighbor, TRUE, rnd.pick)
            ELSE start
    IN  [haz EXCEPT
            !.power_index = power_index,
            !.source_type = source_type,
            !.crit_chance = s.crit,
            !.accuracy = s.accuracy,
            !.dmg_min = dmg_min,
            !.dmg_max = dmg_max,
            !.directional = IF p.directional THEN TRUE ELSE @,
            !.animationKind = animationKind,
            !.lifespan = p.lifespan,
            !.base_speed = p.speed,
            !.active = ~p.no_attack,
            !.trait_crits_impaired = p.trait_crits_impaired,
            !.hp_steal = p.hp_steal,
            !.mp_steal = p.mp_steal,
            !.pos = pos,
            !.post_power = p.post_power,
            !.wall_power = p.wall_power,
            !.loot = IF p.loot # <<>> THEN p.loot ELSE @,
            !.missile = (p.type = POWTYPE_MISSILE)]

\* PowerManager::initHazard(power_index, src_stats, target, haz)
initHazard(w, power_index, target, haz, rnd) ==
    LET p == w.powers[power_index]
        s == w.stats
        source_type ==
            IF p.source_type = -1
            THEN (IF s.hero THEN SOURCE_TYPE_HERO
                  ELSE IF s.hero_ally THEN SOURCE_TYPE_ALLY ELSE SOURCE_TYPE_ENEMY)
            ELSE p.source_type
        base == haz.dmg_max = 0
        dmg_min ==
            IF base /\ p.base_damage = BASE_DAMAGE_MELEE THEN s.dmg_melee_min
            ELSE IF base /\ p.base_damage = BASE_DAMAGE_RANGED THEN s.dmg_ranged_min
            ELSE IF base /\ p.base_damage = BASE_DAMAGE_MENT THEN s.dmg_ment_min
            ELSE haz.dmg_min
        dmg_max ==
            IF base /\ p.base_damage = BASE_DAMAGE_MELEE THEN s.dmg_melee_max
            ELSE IF base /\ p.base_damage = BASE_DAMAGE_RANGED THEN s.dmg_ranged_max
            ELSE IF base /\ p.base_damage = BASE_DAMAGE_MENT THEN s.dmg_ment_max
            ELSE haz.dmg_max
        animationKind ==
            IF p.directional
            THEN calcDirection(s.pos.x, s.pos.y, target.x, target.y)
            ELSE IF p.visual_random # 0 THEN rnd.roll % p.visual_random
            ELSE IF p.visual_option # 0 THEN p.visual_option
            ELSE haz.animationKind
        start ==
            IF p.starting_pos = STARTING_POS_SOURCE THEN s.pos
            ELSE IF p.starting_pos = STARTING_POS_TARGET
                 THEN limitRange(p.target_range, s.pos, target)
            ELSE IF p.starting_pos = STARTING_POS_MELEE
                 THEN calcVector(s.pos, s.direction, s.melee_range)
            ELSE haz.pos
        pos ==
            IF p.target_neighbor > 0
            THEN get_random_neighbor(w.colmap, FloorPt(s.pos), p.target_neighbor, TRUE, rnd.pick)
            ELSE start
    IN  [haz EXCEPT
            !.power_index = power_index,
            !.source_type = source_type,
            !.crit_chance = s.crit,
            !.accuracy = s.accuracy,
            !.dmg_min = dmg_min,
            !.dmg_max = dmg_max,
            !.directional = IF p.directional THEN TRUE ELSE @,
            !.animationKind = animationKind,
            !.lifespan = p.lifespan,
            !.base_speed = p.speed,
            !.active = ~p.no_attack,
            !.trait_crits_impaired = @ + p.trait_crits_impaired,
            !.hp_steal = @ + p.hp_steal,
            !.mp_steal = @ + p.mp_steal,
            !.pos = pos,
            !.post_power = p.post_power,
            !.wall_power = p.wall_power,
            !.loot = IF p.loot # <<>> THEN p.loot ELSE @,
            !.missile = (p.type = POWTYPE_MISSILE)]

\* effect_data of one iteration of PowerManager::effect: the definition loaded from
\* effects.txt, or the generic effect named by the post_effect itself
effectData(pe) ==
    LET e == getEffectDef(EffectTable, pe.id)
    IN  IF e # 0
        THEN [loaded |-> TRUE, id |-> EffectTable[e].id, type |-> EffectTable[e].type]
        ELSE [loaded |-> FALSE, id |-> pe.id, type |-> pe.id]

\* a magnitude under the power's modifier_damage rule (multiply, add, absolute, none)
statModified(p, base, roll) ==
    IF p.mod_damage_mode = STAT_MODIFIER_MODE_MULTIPLY
    THEN CDiv(base * p.mod_damage_value_min, 100)
    ELSE IF p.mod_damage_mode = STAT_MODIFIER_MODE_ADD
    THEN base + p.mod_damage_value_min
    ELSE IF p.mod_damage_mode = STAT_MODIFIER_MODE_ABSOLUTE
    THEN randBetween(p.mod_damage_value_min, p.mod_damage_value_max, roll)
    ELSE base

\* magnitude of one iteration of PowerManager::effect
effectMagnitude(p, s, pe, d, roll) ==
    IF d.loaded /\ d.type = "shield" THEN statModified(p, s.dmg_ment_max, roll)
    ELSE IF d.loaded /\ d.type = "heal"
    THEN statModified(p, randBetween(s.dmg_ment_min, s.dmg_ment_max, roll), roll)
    ELSE pe.magnitude

\* one iteration of PowerManager::effect with effect_data d and the magnitude resolved
effectApply(w, power_index, pe, d, magnitude, source_type) ==
    LET p == w.powers[power_index]
        s == w.stats
        touched ==
            IF d.loaded /\ d.type = "heal"
            THEN [w EXCEPT !.stats.hp =
                    IF @ + magnitude > s.hp_max THEN s.hp_max ELSE @ + magnitude]
            ELSE IF d.loaded /\ d.type = "knockback"
            THEN [w EXCEPT !.stats.knockback_srcpos = s.pos,
                           !.stats.knockback_destpos = s.pos]
            ELSE w
    IN  IF d.loaded /\ d.type = "knockback" /\ s.speed_default = 0
        THEN w
        ELSE [touched EXCEPT !.stats.effects =
                addEffect(@, d.id, d.type, pe.duration, magnitude, p.passive_trigger,
                          IF p.passive THEN power_index ELSE 0, source_type)]

\* one iteration of the loop of PowerManager::effect, with effect_data d
effectWith(w, power_index, pe, d, source_type, rnd) ==
    effectApply(w, power_index, pe, d,
                effectMagnitude(w.powers[power_index], w.stats, pe, d, rnd.roll),
                source_type)

\* one iteration of the loop of PowerManager::effect, for post_effects[i]
effectStep(w, power_index, i, source_type, rnd) ==
    effectWith(w, power_index, w.powers[power_index].post_effects[i],
               effectData(w.powers[power_index].post_effects[i]), source_type, rnd)

RECURSIVE effectFrom(_, _, _, _, _)
\* the loop of PowerManager::effect from index i on
effectFrom(w, power_index, i, source_type, rnd) ==
    IF i > Len(w.powers[power_index].post_effects)
    THEN w
    ELSE effectFrom(effectStep(w, power_index, i, source_type, rnd),
                    power_index, i + 1, source_type, rnd)

\* PowerManager::effect(src_stats, caster_stats, power_index, source_type), caster = target
effect(w, power_index, source_type, rnd) ==
    effectFrom(w, power_index, 1, source_type, rnd)

\* PowerManager::playSound(power_index)
playSound(w, power_index) ==
    IF w.powers[power_index].sfx_index # -1 THEN [w EXCEPT !.snd = @ + 1] ELSE w

-----------------------------------------------------------------------------
(* The activation strategies.  activate re-enters itself through buff      *)
(* (post_power); fuel counts the nested calls still followed, and a chain  *)
(* that runs out of fuel is recorded in w.overflow.  A handler is split    *)
(* into the stages of its body, each stage an operator on the world the    *)
(* stage before it left.                                                    *)

RECURSIVE activate(_, _, _, _, _)

\* buff, "teleport to the target location": t the limited target, nt the random neighbor
buffTeleport(w, power_index, t, nt) ==
    LET p == w.powers[power_index]
    IN  IF ~p.buff_teleport THEN w
        ELSE IF p.target_neighbor > 0
        THEN (IF FloorPt(nt) = FloorPt(t)
              THEN [w EXCEPT !.stats.teleportation = FALSE]
              ELSE [w EXCEPT !.stats.teleportation = TRUE,
                             !.stats.teleport_destination = nt])
        ELSE [w EXCEPT !.stats.teleportation = TRUE,
                       !.stats.teleport_destination = t]

\* buff, "handle all other effects" and the party_buffs push
buffEffects(w, power_index, rnd) ==
    LET p == w.powers[power_index]
        s == w.stats
        source_type == IF s.hero THEN SOURCE_TYPE_HERO
                       ELSE IF s.hero_ally THEN SOURCE_TYPE_ALLY ELSE SOURCE_TYPE_ENEMY
        queued == IF p.buff_party /\ ~p.passive
                  THEN [w EXCEPT !.party_buffs = Append(@, power_index)]
                  ELSE w
    IN  IF p.buff \/ (p.buff_party /\ s.hero_ally)
        THEN effect(queued, power_index, source_type, rnd)
        ELSE queued

\* buff, "handle loot": w is the world the nested activate returned
buffLoot(w, power_index) ==
    LET drop(i) == [item |-> w.powers[power_index].loot[i],
                    x |-> ToTile(w.stats.pos.x), y |-> ToTile(w.stats.pos.y)]
    IN  IF w.overflow THEN w
        ELSE [w EXCEPT !.loot = @ \o [i \in 1..Len(w.powers[power_index].loot) |-> drop(i)]]

\* buff, "activate any post powers here if the power doesn't use a hazard"
buffPost(w, power_index, rnd, fuel) ==
    IF w.powers[power_index].use_hazard THEN w
    ELSE IF fuel = 0 THEN [w EXCEPT !.overflow = TRUE]
    ELSE buffLoot(activate(w, w.powers[power_index].post_power, w.stats.pos, rnd, fuel - 1),
                  power_index)

\* the target of a teleport, kept in range
buffTarget(w, power_index, target) ==
    limitRange(w.powers[power_index].target_range, w.stats.pos, target)

\* the random empty neighbor of the tile t
buffNeighbor(w, power_index, t, rnd) ==
    get_random_neighbor(w.colmap, FloorPt(t), w.powers[power_index].target_neighbor,
                        FALSE, rnd.pick)

\* buff with the teleport target t already limited
buffAt(w, power_index, t, rnd, fuel) ==
    buffPost(buffEffects(buffTeleport(w, power_index, t, buffNeighbor(w, power_index, t, rnd)),
                         power_index, rnd),
             power_index, rnd, fuel)

\* PowerManager::buff(power_index, src_stats, target)
buff(w, power_index, target, rnd, fuel) ==
    buffAt(w, power_index, buffTarget(w, power_index, target), rnd, fuel)

\* the tail of fixed and of transform: playSound, payPowerCost, return true
soundAndCost(w, power_index) ==
    IF w.overflow THEN w
    ELSE [payPowerCost(playSound(w, power_index), power_index) EXCEPT !.ret = TRUE]

\* delay_frames with delay_iterator advanced before it is assigned
staggeredLate(h, i, delay) ==
    [h EXCEPT !.delay_frames = i * delay]

\* delay_frames of the hazards of one activation: the i-th is delayed (i - 1) * delay
staggered(h, i, delay) ==
    [h EXCEPT !.delay_frames = (i - 1) * delay]

\* the hazards of the loop of PowerManager::fixed: count copies of h, staggered
fixedHazards(p, h) ==
    [i \in 1..Max(0, p.count) |-> staggered(h, i, p.delay)]

\* PowerManager::fixed, the use_hazard loop
fixedEmit(w, power_index, target, rnd) ==
    IF w.powers[power_index].use_hazard
    THEN [w EXCEPT !.hazards = @ \o fixedHazards(w.powers[power_index],
                                    initHazard(w, power_index, target, NewHazard, rnd))]
    ELSE w

\* PowerManager::fixed(power_index, src_stats, target)
fixed(w, power_index, target, rnd, fuel) ==
    soundAndCost(buff(fixedEmit(w, power_index, target, rnd), power_index, target, rnd, fuel),
                 power_index)

\* offset_angle with (1 - count) / 2 taken in integers, in half-degrees
offsetAngleWhole(count, i, missile_angle) ==
    (CDiv(1 - count, 2) + i) * 2 * missile_angle

\* offset_angle of missile i of count, in half-degrees
offsetAngle(count, i, missile_angle) ==
    ((1 - count) + 2 * i) * missile_angle

\* the hazards of the loop of PowerManager::missile from the initialised hazard h and the
\* bearing theta; angles in half-degrees
missileHazards(p, h, theta, rnd) ==
    [k \in 1..Max(0, p.count) |->
        [staggered(h, k, p.delay) EXCEPT
            !.base_speed = @ + (IF p.speed_variance # 0 THEN rnd.speed_var ELSE 0),
            !.angle = 2 * theta + offsetAngle(p.count, k - 1, p.missile_angle)
                      + 2 * (IF p.angle_variance # 0 THEN rnd.variance[k - 1] ELSE 0)]]

\* theta of PowerManager::missile: the bearing from src (the target itself when
\* starting_pos is target) to the target
missileTheta(w, power_index, target) ==
    IF w.powers[power_index].starting_pos = STARTING_POS_TARGET
    THEN calcTheta(target.x, target.y, target.x, target.y)
    ELSE calcTheta(w.stats.pos.x, w.stats.pos.y, target.x, target.y)

\* PowerManager::missile, the hazard loop
missileEmit(w, power_index, target, rnd) ==
    [w EXCEPT !.hazards = @ \o missileHazards(w.powers[power_index],
                                    initHazard(w, power_index, target, NewHazard, rnd),
                                    missileTheta(w, power_index, target), rnd)]

\* PowerManager::missile(power_index, src_stats, target)
missile(w, power_index, target, rnd) ==
    [playSound(payPowerCost(missileEmit(w, power_index, target, rnd), power_index),
               power_index) EXCEPT !.ret = TRUE]

\* speed of PowerManager::repeater: the step vector along the bearing to the target
repeaterSpeed(p, pos, target) ==
    LET theta == calcTheta(pos.x, pos.y, target.x, target.y)
    IN  Pt(CDiv(p.speed * Cos1000(theta), 1000), CDiv(p.speed * Sin1000(theta), 1000))

\* location_iterator of PowerManager::repeater after i steps
repeaterStep(pos, speed, i) ==
    Pt(pos.x + i * speed.x, pos.y + i * speed.y)

\* collider->is_wall(location_iterator.x, location_iterator.y)
wallAt(cm, l) ==
    is_wall(cm, l.x, l.y)

\* the wall test made after the push: the step that lands on the wall emits too
repeaterStepsThroughWall(cm, pos, speed, count) ==
    LET walls == {i \in 1..count : wallAt(cm, repeaterStep(pos, speed, i))}
    IN  IF walls = {} THEN Max(0, count)
        ELSE CHOOSE i \in walls : \A j \in walls : i <= j

\* the number of iterations the repeater loop completes before its break or its end
repeaterSteps(cm, pos, speed, count) ==
    LET walls == {i \in 1..count : wallAt(cm, repeaterStep(pos, speed, i))}
    IN  IF walls = {} THEN Max(0, count)
        ELSE (CHOOSE i \in walls : \A j \in walls : i <= j) - 1

\* the hazards of the loop of PowerManager::repeater: one per step, n steps
repeaterHazards(p, h, pos, speed, n) ==
    [i \in 1..n |-> [staggered(h, i, p.delay) EXCEPT !.pos = repeaterStep(pos, speed, i)]]

\* PowerManager::repeater, the loop along the step vector speed
repeaterEmit(w, power_index, target, rnd, speed) ==
    [w EXCEPT !.hazards = @ \o repeaterHazards(w.powers[power_index],
                                    initHazard(w, power_index, target, NewHazard, rnd),
                                    w.stats.pos, speed,
                                    repeaterSteps(w.colmap, w.stats.pos, speed,
                                                  w.powers[power_index].count)),
              !.ret = TRUE]

\* PowerManager::repeater after payPowerCost: the walk toward the target
repeaterWalk(w, power_index, target, rnd) ==
    repeaterEmit(playSound(w, power_index), power_index, target, rnd,
                 repeaterSpeed(w.powers[power_index], w.stats.pos, target))

\* repeater charging only when it has pushed a hazard
repeaterPayPerHazard(w, power_index, target, rnd) ==
    LET walked == repeaterWalk(w, power_index, target, rnd)
    IN  IF Len(walked.hazards) = Len(w.hazards) THEN walked
        ELSE [payPowerCost(walked, power_index) EXCEPT !.ret = TRUE]

\* PowerManager::repeater(power_index, src_stats, target)
repeater(w, power_index, target, rnd) ==
    repeaterWalk(payPowerCost(w, power_index), power_index, target, rnd)

\* spawn, "enemy spawning position"
spawnStart(w, power_index, target) ==
    LET p == w.powers[power_index]
    IN  IF p.starting_pos = STARTING_POS_SOURCE THEN w.stats.pos
        ELSE IF p.starting_pos = STARTING_POS_TARGET THEN target
        ELSE IF p.starting_pos = STARTING_POS_MELEE
             THEN calcVector(w.stats.pos, w.stats.direction, w.stats.melee_range)
        ELSE Pt(0, 0)

\* the forced neighbor search reaching two tiles away
spawnNeighborWide(w, power_index, start) ==
    IF ~is_empty(w.colmap, start.x, start.y) /\ w.powers[power_index].target_neighbor < 1
    THEN 2
    ELSE w.powers[power_index].target_neighbor

\* spawn, "force target_neighbor if our initial target is blocked"
spawnNeighbor(w, power_index, start) ==
    IF ~is_empty(w.colmap, start.x, start.y) /\ w.powers[power_index].target_neighbor < 1
    THEN 1
    ELSE w.powers[power_index].target_neighbor

\* spawn, the position after the neighbor search
spawnPos(w, start, target_neighbor, pick) ==
    IF target_neighbor > 0
    THEN FloorPt(get_random_neighbor(w.colmap, FloorPt(w.stats.pos), target_neighbor,
                                     FALSE, pick))
    ELSE start

\* spawn, the loop pushing count copies of espawn
spawnPush(w, power_index, target, pos) ==
    LET p == w.powers[power_index]
        s == w.stats
        espawn == [type |-> p.spawn_type, summoner |-> TRUE, pos |-> pos,
                   direction |-> calcDirection(s.pos.x, s.pos.y, target.x, target.y),
                   summon_power_index |-> power_index,
                   hero_ally |-> (s.hero \/ s.hero_ally)]
    IN  [w EXCEPT !.enemies = @ \o Repeat(espawn, p.count)]

\* spawn, its tail: playSound, return true
spawnDone(w, power_index) ==
    IF w.overflow THEN w ELSE [playSound(w, power_index) EXCEPT !.ret = TRUE]

\* spawn paying the cost before it looks at the tile: a blocked tile fails after payment
spawnAtPaidFirst(w, power_index, target, rnd, fuel, pos) ==
    IF ~is_empty(w.colmap, pos.x, pos.y)
    THEN [payPowerCost(w, power_index) EXCEPT !.ret = FALSE]
    ELSE spawnDone(buff(payPowerCost(spawnPush(w, power_index, target, pos), power_index),
                        power_index, target, rnd, fuel),
                   power_index)

\* spawn from "can't spawn on a blocked tile" on, at the position pos
spawnAt(w, power_index, target, rnd, fuel, pos) ==
    IF ~is_empty(w.colmap, pos.x, pos.y) THEN [w EXCEPT !.ret = FALSE]
    ELSE spawnDone(buff(payPowerCost(spawnPush(w, power_index, target, pos), power_index),
                        power_index, target, rnd, fuel),
                   power_index)

\* spawn from the starting position start
spawnFrom(w, power_index, target, rnd, fuel, start) ==
    spawnAt(w, power_index, target, rnd, fuel,
            spawnPos(w, start, spawnNeighbor(w, power_index, start), rnd.pick))

\* PowerManager::spawn(power_index, src_stats, target)
spawn(w, power_index, target, rnd, fuel) ==
    spawnFrom(w, power_index, target, rnd, fuel, spawnStart(w, power_index, target))

\* inpt->lockActionBar()
lockActionBar(w) ==
    [w EXCEPT !.inpt.locked = TRUE, !.inpt.lock_calls = @ + 1]

\* inpt->unlockActionBar()
unlockActionBar(w) ==
    [w EXCEPT !.inpt.locked = FALSE, !.inpt.unlock_calls = @ + 1]

\* transform, its tail: the three flags, playSound, payPowerCost, return true
transformDone(w, power_index) ==
    IF w.overflow THEN w
    ELSE soundAndCost(
            [w EXCEPT
                !.stats.manual_untransform = w.powers[power_index].manual_untransform,
                !.stats.transform_with_equipment = w.powers[power_index].keep_equipment,
                !.stats.untransform_on_hit = w.powers[power_index].untransform_on_hit],
            power_index)

\* untransform leaving the tile unblocked and, on failure, the action bar locked
untransformAtLeftOpen(w, power_index, target, rnd, fuel, unblocked) ==
    IF is_valid_position(unblocked, w.stats.pos.x, w.stats.pos.y)
    THEN transformDone(
            buff([w EXCEPT !.stats.transform_duration = 0,
                           !.stats.transform_type = "untransform",
                           !.colmap = unblocked],
                 power_index, target, rnd, fuel),
            power_index)
    ELSE [w EXCEPT
            !.log_msg = "Could not untransform at this position.",
            !.colmap = unblocked,
            !.ret = FALSE]

\* untransform writing the duration and the type before it tests the position
untransformAtEager(w, power_index, target, rnd, fuel, unblocked) ==
    IF is_valid_position(unblocked, w.stats.pos.x, w.stats.pos.y)
    THEN transformDone(
            buff([w EXCEPT !.stats.transform_duration = 0,
                           !.stats.transform_type = "untransform",
                           !.colmap = block(unblocked, w.stats.pos.x, w.stats.pos.y)],
                 power_index, target, rnd, fuel),
            power_index)
    ELSE [unlockActionBar(w) EXCEPT
            !.stats.transform_duration = 0,
            !.stats.transform_type = "untransform",
            !.log_msg = "Could not untransform at this position.",
            !.colmap = block(unblocked, w.stats.pos.x, w.stats.pos.y),
            !.ret = FALSE]

\* transform, "execute untransform powers": unblocked is the map after collider->unblock
untransformAt(w, power_index, target, rnd, fuel, unblocked) ==
    IF is_valid_position(unblocked, w.stats.pos.x, w.stats.pos.y)
    THEN transformDone(
            buff([w EXCEPT !.stats.transform_duration = 0,
                           !.stats.transform_type = "untransform",
                           !.colmap = block(unblocked, w.stats.pos.x, w.stats.pos.y)],
                 power_index, target, rnd, fuel),
            power_index)
    ELSE [unlockActionBar(w) EXCEPT
            !.log_msg = "Could not untransform at this position.",
            !.colmap = block(unblocked, w.stats.pos.x, w.stats.pos.y),
            !.ret = FALSE]

\* transform, the else branch: the duration and the new transform_type
transformInto(w, power_index) ==
    LET p == w.powers[power_index]
    IN  [w EXCEPT !.stats.transform_duration =
                        IF p.transform_duration = 0 THEN -1
                        ELSE IF p.transform_duration > 0 THEN p.transform_duration
                        ELSE @,
                  !.stats.transform_type = p.spawn_type]

\* transform releasing the action bar when it turns away an actor already transformed
transformLockedReleasing(w, power_index, target, rnd, fuel) ==
    LET p == w.powers[power_index]
        s == w.stats
    IN  IF s.transformed /\ p.spawn_type # "untransform"
        THEN [unlockActionBar(w) EXCEPT
                    !.log_msg = "You are already transformed, untransform first.",
                    !.ret = FALSE]
        ELSE IF p.spawn_type = "untransform" /\ s.transformed
        THEN untransformAt(w, power_index, target, rnd, fuel,
                           unblock(w.colmap, s.pos.x, s.pos.y))
        ELSE transformDone(buff(transformInto(w, power_index), power_index, target, rnd, fuel),
                           power_index)

\* transform without the test for an actor already transformed
transformLockedAnyway(w, power_index, target, rnd, fuel) ==
    LET p == w.powers[power_index]
        s == w.stats
    IN  IF p.spawn_type = "untransform" /\ s.transformed
        THEN untransformAt(w, power_index, target, rnd, fuel,
                           unblock(w.colmap, s.pos.x, s.pos.y))
        ELSE transformDone(buff(transformInto(w, power_index), power_index, target, rnd, fuel),
                           power_index)

\* transform after lockActionBar
transformLocked(w, power_index, target, rnd, fuel) ==
    LET p == w.powers[power_index]
        s == w.stats
    IN  IF s.transformed /\ p.spawn_type # "untransform"
        THEN [w EXCEPT !.log_msg = "You are already transformed, untransform first.",
                       !.ret = FALSE]
        ELSE IF p.spawn_type = "untransform" /\ s.transformed
        THEN untransformAt(w, power_index, target, rnd, fuel,
                           unblock(w.colmap, s.pos.x, s.pos.y))
        ELSE transformDone(buff(transformInto(w, power_index), power_index, target, rnd, fuel),
                           power_index)

\* PowerManager::transform(power_index, src_stats, target)
transform(w, power_index, target, rnd, fuel) ==
    transformLocked(lockActionBar(w), power_index, target, rnd, fuel)

\* block, its tail: playSound, payPowerCost, return true
blockDone(w, power_index) ==
    [payPowerCost(playSound(w, power_index), power_index) EXCEPT !.ret = TRUE]

\* block without its test of triggered_block
blockPowerReentrant(w, power_index, rnd) ==
    blockDone(effect([w EXCEPT !.stats.effects.triggered_block = TRUE,
                               !.powers[power_index].passive_trigger = TRIGGER_BLOCK],
                     power_index, SOURCE_TYPE_HERO, rnd),
              power_index)

\* block leaving the power table alone
blockPowerTableKept(w, power_index, rnd) ==
    IF w.stats.effects.triggered_block THEN [w EXCEPT !.ret = FALSE]
    ELSE blockDone(effect([w EXCEPT !.stats.effects.triggered_block = TRUE],
                          power_index, SOURCE_TYPE_HERO, rnd),
                   power_index)

\* PowerManager::block(power_index, src_stats)
blockPower(w, power_index, rnd) ==
    IF w.stats.effects.triggered_block THEN [w EXCEPT !.ret = FALSE]
    ELSE blockDone(effect([w EXCEPT !.stats.effects.triggered_block = TRUE,
                                    !.powers[power_index].passive_trigger = TRIGGER_BLOCK],
                          power_index, SOURCE_TYPE_HERO, rnd),
                   power_index)

\* the mana test off by one: a hero is turned away only when two or more mp short
lacksManaByTwo(w, power_index) ==
    w.stats.hero /\ w.powers[power_index].requires_mp > w.stats.mp + 1

\* the health test with > for >=: a cost equal to the actor's hp passes
lacksHealthStrictly(w, power_index) ==
    /\ w.stats.hp > 0
    /\ w.powers[power_index].sacrifice = FALSE
    /\ w.powers[power_index].requires_hp > w.stats.hp

\* activate, the mana test: a hero whose mp is below the power's requires_mp
lacksMana(w, power_index) ==
    w.stats.hero /\ w.powers[power_index].requires_mp > w.stats.mp

\* activate, the health test: a living actor, no sacrifice, requires_hp at or above its hp
lacksHealth(w, power_index) ==
    /\ w.stats.hp > 0
    /\ w.powers[power_index].sacrifice = FALSE
    /\ w.powers[power_index].requires_hp >= w.stats.hp

\* activate, the dispatch on the power's type
dispatch(w, power_index, target, rnd, fuel) ==
    LET p == w.powers[power_index]
    IN  IF p.type = POWTYPE_BLOCK THEN blockPower(w, power_index, rnd)
        ELSE IF p.type = POWTYPE_FIXED THEN fixed(w, power_index, target, rnd, fuel)
        ELSE IF p.type = POWTYPE_MISSILE THEN missile(w, power_index, target, rnd)
        ELSE IF p.type = POWTYPE_REPEATER THEN repeater(w, power_index, target, rnd)
        ELSE IF p.type = POWTYPE_SPAWN THEN spawn(w, power_index, target, rnd, fuel)
        ELSE IF p.type = POWTYPE_TRANSFORM THEN transform(w, power_index, target, rnd, fuel)
        ELSE [w EXCEPT !.ret = FALSE]

\* PowerManager::activate(power_index, src_stats, target)
activate(w, power_index, target, rnd, fuel) ==
    IF UnsignedAtLeast(power_index, TableSize(w.powers)) THEN [w EXCEPT !.ret = FALSE]
    ELSE IF lacksMana(w, power_index) THEN [w EXCEPT !.ret = FALSE]
    ELSE IF lacksHealth(w, power_index) THEN [w EXCEPT !.ret = FALSE]
    ELSE dispatch(w, power_index, target, rnd, fuel)

-----------------------------------------------------------------------------
(* The passive trigger scanner.  w.trace lists the powers a scan hands to  *)
(* activate, in call order; a scan state is the world and the scanner's    *)
(* local triggered_others.                                                  *)

\* the trigger test reading the scanner's local flag as well as the actor's: after one
\* unconditional passive has fired in a scan the others of that scan are skipped
passiveGateOnePerScan(sc, id) ==
    LET w == sc.w
        p == w.powers[id]
        e == w.stats.effects
        trigger == p.passive_trigger
        skip == [w |-> w, triggered_others |-> sc.triggered_others, fire |-> FALSE]
        go == [w |-> w, triggered_others |-> sc.triggered_others, fire |-> TRUE]
    IN  IF ~p.passive THEN skip
        ELSE IF trigger = -1
             THEN (IF e.triggered_others \/ sc.triggered_others THEN skip
                   ELSE [go EXCEPT !.triggered_others = TRUE])
        ELSE IF trigger = TRIGGER_BLOCK /\ ~e.triggered_block THEN skip
        ELSE IF trigger = TRIGGER_HIT /\ ~e.triggered_hit THEN skip
        ELSE IF trigger = TRIGGER_HALFDEATH /\ ~e.triggered_halfdeath
             THEN (IF w.stats.hp > CDiv(w.stats.hp_max, 2) THEN skip
                   ELSE [go EXCEPT !.w.stats.effects.triggered_halfdeath = TRUE])
        ELSE IF trigger = TRIGGER_JOINCOMBAT /\ ~e.triggered_joincombat
             THEN (IF ~w.stats.in_combat THEN skip
                   ELSE [go EXCEPT !.w.stats.effects.triggered_joincombat = TRUE])
        ELSE IF trigger = TRIGGER_DEATH /\ ~e.triggered_death THEN skip
        ELSE go

\* the trigger test without the line of the on-death trigger
passiveGateDeathAlways(sc, id) ==
    LET w == sc.w
        p == w.powers[id]
        e == w.stats.effects
        trigger == p.passive_trigger
        skip == [w |-> w, triggered_others |-> sc.triggered_others, fire |-> FALSE]
        go == [w |-> w, triggered_others |-> sc.triggered_others, fire |-> TRUE]
    IN  IF ~p.passive THEN skip
        ELSE IF trigger = -1
             THEN (IF e.triggered_others THEN skip ELSE [go EXCEPT !.triggered_others = TRUE])
        ELSE IF trigger = TRIGGER_BLOCK /\ ~e.triggered_block THEN skip
        ELSE IF trigger = TRIGGER_HIT /\ ~e.triggered_hit THEN skip
        ELSE IF trigger = TRIGGER_HALFDEATH /\ ~e.triggered_halfdeath
             THEN (IF w.stats.hp > CDiv(w.stats.hp_max, 2) THEN skip
                   ELSE [go EXCEPT !.w.stats.effects.triggered_halfdeath = TRUE])
        ELSE IF trigger = TRIGGER_JOINCOMBAT /\ ~e.triggered_joincombat
             THEN (IF ~w.stats.in_combat THEN skip
                   ELSE [go EXCEPT !.w.stats.effects.triggered_joincombat = TRUE])
        ELSE go

\* the trigger test of one iteration of either loop of activatePassives: whether the
\* iteration reaches activate, the flag it sets on the way, the scanner's local flag
passiveGate(sc, id) ==
    LET w == sc.w
        p == w.powers[id]
        e == w.stats.effects
        trigger == p.passive_trigger
        skip == [w |-> w, triggered_others |-> sc.triggered_others, fire |-> FALSE]
        go == [w |-> w, triggered_others |-> sc.triggered_others, fire |-> TRUE]
    IN  IF ~p.passive THEN skip
        ELSE IF trigger = -1
             THEN (IF e.triggered_others THEN skip ELSE [go EXCEPT !.triggered_others = TRUE])
        ELSE IF trigger = TRIGGER_BLOCK /\ ~e.triggered_block THEN skip
        ELSE IF trigger = TRIGGER_HIT /\ ~e.triggered_hit THEN skip
        ELSE IF trigger = TRIGGER_HALFDEATH /\ ~e.triggered_halfdeath
             THEN (IF w.stats.hp > CDiv(w.stats.hp_max, 2) THEN skip
                   ELSE [go EXCEPT !.w.stats.effects.triggered_halfdeath = TRUE])
        ELSE IF trigger = TRIGGER_JOINCOMBAT /\ ~e.triggered_joincombat
             THEN (IF ~w.stats.in_combat THEN skip
                   ELSE [go EXCEPT !.w.stats.effects.triggered_joincombat = TRUE])
        ELSE IF trigger = TRIGGER_DEATH /\ ~e.triggered_death THEN skip
        ELSE go

\* the world after activate returned to a scan: refresh_stats set
passiveFired(w) ==
    IF w.overflow THEN w ELSE [w EXCEPT !.stats.refresh_stats = TRUE]

\* the end of one iteration: activate(id, src_stats, src_stats->pos) unless skipped
passiveFire(g, id, rnd, fuel) ==
    [w |-> IF g.fire
           THEN passiveFired(activate([g.w EXCEPT !.trace = Append(@, id)], id,
                                      g.w.stats.pos, rnd, fuel))
           ELSE g.w,
     triggered_others |-> g.triggered_others]

\* the body of one iteration of either loop of PowerManager::activatePassives
passiveStep(sc, id, rnd, fuel) ==
    passiveFire(passiveGate(sc, id), id, rnd, fuel)

RECURSIVE passiveLoop(_, _, _, _, _)
\* one of the two loops of activatePassives over the list named by field, from index i on
passiveLoop(sc, field, i, rnd, fuel) ==
    IF sc.w.overflow \/ i > Len(sc.w.stats[field]) THEN sc
    ELSE passiveLoop(passiveStep(sc, sc.w.stats[field][i], rnd, fuel), field, i + 1, rnd, fuel)

\* the end of a scan that resets the block trigger with the hit trigger, not the death one
passivesDoneResetBlock(sc) ==
    IF sc.w.overflow THEN sc.w
    ELSE [sc.w EXCEPT
            !.stats.effects.triggered_others = IF sc.triggered_others THEN TRUE ELSE @,
            !.stats.effects.triggered_hit = FALSE,
            !.stats.effects.triggered_block = FALSE]

\* the end of activatePassives: "Only trigger normal passives once", the hit/death reset
passivesDone(sc) ==
    IF sc.w.overflow THEN sc.w
    ELSE [sc.w EXCEPT
            !.stats.effects.triggered_others = IF sc.triggered_others THEN TRUE ELSE @,
            !.stats.effects.triggered_hit = FALSE,
            !.stats.effects.triggered_death = FALSE]

\* PowerManager::activatePassives(src_stats)
activatePassives(w, rnd, fuel) ==
    passivesDone(
        passiveLoop(
            passiveLoop([w |-> [w EXCEPT !.trace = <<>>], triggered_others |-> FALSE],
                        "powers_passive", 1, rnd, fuel),
            "powers_list_items", 1, rnd, fuel))

\* the end of activateSinglePassive marking the actor only when the activation succeeded
singleDoneOnSuccess(w) ==
    IF w.overflow \/ ~w.ret THEN w
    ELSE [w EXCEPT !.stats.refresh_stats = TRUE, !.stats.effects.triggered_others = TRUE]

\* the end of activateSinglePassive: refresh_stats and triggered_others set
singleDone(w) ==
    IF w.overflow THEN w
    ELSE [w EXCEPT !.stats.refresh_stats = TRUE, !.stats.effects.triggered_others = TRUE]

\* PowerManager::activateSinglePassive(src_stats, id)
activateSinglePassive(w, id, rnd, fuel) ==
    IF ~w.powers[id].passive THEN [w EXCEPT !.trace = <<>>]
    ELSE IF w.powers[id].passive_trigger # -1 THEN [w EXCEPT !.trace = <<>>]
    ELSE singleDone(activate([w EXCEPT !.trace = <<id>>], id, w.stats.pos, rnd, fuel))

\* verifyID with > for >= at the upper end: the table size itself passes
verifyIDPastEnd(w, power_id, allow_zero) ==
    LET lower_bound == (allow_zero /\ power_id < 0) \/ (~allow_zero /\ power_id < 1)
    IN  IF lower_bound \/ UnsignedAtLeast(power_id, TableSize(w.powers) + 1)
        THEN [w EXCEPT !.errors = @ + 1, !.ret = 0]
        ELSE [w EXCEPT !.ret = power_id]

\* PowerManager::verifyID(power_id, infile, allow_zero): the id returned, one error on rejection
verifyID(w, power_id, allow_zero) ==
    LET lower_bound == (allow_zero /\ power_id < 0) \/ (~allow_zero /\ power_id < 1)
    IN  IF lower_bound \/ UnsignedAtLeast(power_id, TableSize(w.powers))
        THEN [w EXCEPT !.errors = @ + 1, !.ret = 0]
        ELSE [w EXCEPT !.ret = power_id]

-----------------------------------------------------------------------------
(* The loader.  A line of powers.txt is a record [key, val], val the tuple  *)
(* of its comma-separated fields as text.  A load state is the world and    *)
(* the locals of loadPowers.                                                *)

\* the numerals the files use
Numerals ==
    ("-1" :> -1) @@ ("0" :> 0) @@ ("1" :> 1) @@ ("2" :> 2) @@ ("3" :> 3) @@ ("4" :> 4)
    @@ ("5" :> 5) @@ ("7" :> 7) @@ ("9" :> 9) @@ ("11" :> 11)

\* toInt(s) / popFirstInt: the number a field spells, 0 for text that spells none
toInt(str) ==
    IF str \in DOMAIN Numerals THEN Numerals[str] ELSE 0

\* the text of a number, as a file spells it
Spelled(n) ==
    CHOOSE str \in DOMAIN Numerals : Numerals[str] = n

\* STAT_KEY[0..STAT_COUNT-1], the stat names an effect may carry
STAT_KEY == {"hp", "hp_regen", "mp", "mp_regen", "accuracy", "avoidance", "crit"}

\* ELEMENTS[i].id + "_resist"
ElementResists == {"fire_resist", "ice_resist"}

\* isValidEffect looking the name up among the effect types, not the effect ids
isValidEffectByType(type) ==
    \/ type \in {"speed", "physical", "mental", "offense", "defense"}
    \/ type \in STAT_KEY
    \/ type \in ElementResists
    \/ \E i \in 1..Len(EffectTable) : EffectTable[i].type = type

\* PowerManager::isValidEffect(type)
isValidEffect(type) ==
    \/ type \in {"speed", "physical", "mental", "offense", "defense"}
    \/ type \in STAT_KEY
    \/ type \in ElementResists
    \/ getEffectDef(EffectTable, type) # 0

\* powers.resize(n) on a table no longer than n
resize(table, n) ==
    [i \in 0..(n - 1) |-> IF i \in DOMAIN table THEN table[i] ELSE DefaultPower]

\* the locals of loadPowers before the first line
LoadStart(w) ==
    [w |-> w, input_id |-> 0, skippingEntry |-> FALSE,
     clear_post_effects |-> TRUE, clear_loot |-> TRUE]

\* toBool(s): the truth value a field spells
toBool(str) ==
    str \in {"true", "1", "yes"}

\* the "id" line taken as the start of a fresh record: the slot is reset to the default
loadIdFreshRecord(st, line) ==
    LET input_id == toInt(line.val[1])
    IN  [st EXCEPT
            !.input_id = input_id,
            !.skippingEntry = input_id < 1,
            !.w.errors = IF input_id < 1 THEN @ + 1 ELSE @,
            !.w.powers = IF input_id < 1 THEN @
                         ELSE [i \in 0..(Max(TableSize(@), input_id + 1) - 1) |->
                                 IF i \in DOMAIN @ /\ i # input_id THEN @[i]
                                 ELSE DefaultPower],
            !.clear_post_effects = TRUE,
            !.clear_loot = TRUE]

\* the "id" line with both clear flags left as they are: effects of an earlier block stay
loadIdKeepLists(st, line) ==
    LET input_id == toInt(line.val[1])
    IN  [st EXCEPT
            !.input_id = input_id,
            !.skippingEntry = input_id < 1,
            !.w.errors = IF input_id < 1 THEN @ + 1 ELSE @,
            !.w.powers = IF TableSize(@) < input_id + 1 THEN resize(@, input_id + 1) ELSE @]

\* loadPowers, the "id" line
loadId(st, line) ==
    LET input_id == toInt(line.val[1])
    IN  [st EXCEPT
            !.input_id = input_id,
            !.skippingEntry = input_id < 1,
            !.w.errors = IF input_id < 1 THEN @ + 1 ELSE @,
            !.w.powers = IF TableSize(@) < input_id + 1 THEN resize(@, input_id + 1) ELSE @,
            !.clear_post_effects = TRUE,
            !.clear_loot = TRUE]

\* the types a "type" line may name
PowerTypes ==
    [fixed |-> POWTYPE_FIXED, missile |-> POWTYPE_MISSILE, repeater |-> POWTYPE_REPEATER,
     spawn |-> POWTYPE_SPAWN, transform |-> POWTYPE_TRANSFORM, block |-> POWTYPE_BLOCK]

\* loadPowers, the "type" line
loadType(st, line) ==
    IF line.val[1] \in DOMAIN PowerTypes
    THEN [st EXCEPT !.w.powers[st.input_id].type = PowerTypes[line.val[1]]]
    ELSE [st EXCEPT !.w.errors = @ + 1]

\* the quantity clamp with the ceiling missing: the quantity is stored as read
loadEquippedUnclamped(st, line) ==
    [st EXCEPT
        !.w.powers[st.input_id].requires_equipped_item = toInt(line.val[1]),
        !.w.powers[st.input_id].requires_equipped_item_quantity = toInt(line.val[2]),
        !.w.errors = IF toInt(line.val[2]) > 1 THEN @ + 1 ELSE @]

\* loadPowers, the "requires_equipped_item" line: at most one is consumed at a time
loadEquipped(st, line) ==
    [st EXCEPT
        !.w.powers[st.input_id].requires_equipped_item = toInt(line.val[1]),
        !.w.powers[st.input_id].requires_equipped_item_quantity =
            IF toInt(line.val[2]) > 1 THEN 1 ELSE toInt(line.val[2]),
        !.w.errors = IF toInt(line.val[2]) > 1 THEN @ + 1 ELSE @]

\* the "post_effect" line pushing the effect without asking isValidEffect
pushPostEffectUnchecked(st, line) ==
    [st EXCEPT !.w.powers[st.input_id].post_effects =
        Append(@, [id |-> line.val[1], magnitude |-> toInt(line.val[2]),
                   duration |-> toInt(line.val[3])])]

\* loadPowers, the "post_effect" line after the clear: an unknown effect is an error
pushPostEffect(st, line) ==
    IF ~isValidEffect(line.val[1])
    THEN [st EXCEPT !.w.errors = @ + 1]
    ELSE [st EXCEPT !.w.powers[st.input_id].post_effects =
            Append(@, [id |-> line.val[1], magnitude |-> toInt(line.val[2]),
                       duration |-> toInt(line.val[3])])]

\* the "post_effect" line clearing the list whenever it is read
loadPostEffectClearing(st, line) ==
    pushPostEffect([st EXCEPT !.w.powers[st.input_id].post_effects = <<>>,
                              !.clear_post_effects = FALSE],
                   line)

\* loadPowers, the "post_effect" line
loadPostEffect(st, line) ==
    pushPostEffect(IF st.clear_post_effects
                   THEN [st EXCEPT !.w.powers[st.input_id].post_effects = <<>>,
                                   !.clear_post_effects = FALSE]
                   ELSE st,
                   line)

\* loadPowers, the "loot" line, with a LootManager present: parseLoot fills the component
\* pushed with the one loot the line names
loadLoot(st, line) ==
    [st EXCEPT !.w.powers[st.input_id].loot =
                    Append(IF st.clear_loot THEN <<>> ELSE @, line.val[1]),
               !.clear_loot = FALSE]

\* loadPowers, the else-if chain over the keys of a line that is no id line
loadField(st, line) ==
    IF line.key = "type" THEN loadType(st, line)
    ELSE IF line.key = "requires_mp"
         THEN [st EXCEPT !.w.powers[st.input_id].requires_mp = toInt(line.val[1])]
    ELSE IF line.key = "requires_hp"
         THEN [st EXCEPT !.w.powers[st.input_id].requires_hp = toInt(line.val[1])]
    ELSE IF line.key = "sacrifice"
         THEN [st EXCEPT !.w.powers[st.input_id].sacrifice = toBool(line.val[1])]
    ELSE IF line.key = "requires_equipped_item" THEN loadEquipped(st, line)
    ELSE IF line.key = "post_effect" THEN loadPostEffect(st, line)
    ELSE IF line.key = "loot" THEN loadLoot(st, line)
    ELSE IF line.key = "post_power"
         THEN [st EXCEPT !.w.powers[st.input_id].post_power = toInt(line.val[1])]
    ELSE IF line.key = "wall_power"
         THEN [st EXCEPT !.w.powers[st.input_id].wall_power = toInt(line.val[1])]
    ELSE [st EXCEPT !.w.errors = @ + 1]

\* the else-if chain reads or writes powers[input_id] on this line
Touches(st, line) ==
    \/ line.key \in {"requires_mp", "requires_hp", "sacrifice", "requires_equipped_item",
                     "post_power", "wall_power", "loot"}
    \/ line.key = "type" /\ line.val[1] \in DOMAIN PowerTypes
    \/ line.key = "post_effect" /\ (st.clear_post_effects \/ isValidEffect(line.val[1]))

\* one pass of the while loop without the test of skippingEntry
loadLineNoSkip(st, line) ==
    IF line.key = "id" THEN loadId(st, line)
    ELSE IF Touches(st, line) /\ st.input_id \notin DOMAIN st.w.powers
         THEN [st EXCEPT !.w.stray = TRUE]
    ELSE loadField(st, line)

\* loadPowers, one pass of its while loop.  powers[input_id] is an unchecked
\* std::vector access: outside the table it is undefined, and the pass is marked stray
loadLine(st, line) ==
    IF line.key = "id" THEN loadId(st, line)
    ELSE IF st.skippingEntry THEN st
    ELSE IF Touches(st, line) /\ st.input_id \notin DOMAIN st.w.powers
         THEN [st EXCEPT !.w.stray = TRUE]
    ELSE loadField(st, line)

RECURSIVE loadFrom(_, _, _)
\* loadPowers, its while loop from line i of the file on
loadFrom(st, file, i) ==
    IF i > Len(file) THEN st
    ELSE loadFrom(loadLine(st, file[i]), file, i + 1)

\* the id verifyID returned, stored in powers[i].wall_power
storeWall(r, i) ==
    [r EXCEPT !.powers[i].wall_power = r.ret]

\* the id verifyID returned, stored in powers[i].post_power
storePost(r, i) ==
    [r EXCEPT !.powers[i].post_power = r.ret]

\* powers[i].wall_power = verifyID(powers[i].wall_power), allow_zero at its default
verifyWall(w, i) ==
    storeWall(verifyID(w, w.powers[i].wall_power, TRUE), i)

\* the verify loop storing post_power as the file gave it
verifyPostAsRead(w, i) ==
    storePost([w EXCEPT !.ret = w.powers[i].post_power], i)

\* powers[i].post_power = verifyID(powers[i].post_power), allow_zero at its default
verifyPost(w, i) ==
    storePost(verifyID(w, w.powers[i].post_power, TRUE), i)

RECURSIVE verifyFrom(_, _)
\* loadPowers, "verify wall/post power ids" from slot i on
verifyFrom(w, i) ==
    IF i >= TableSize(w.powers) THEN w
    ELSE verifyFrom(verifyPost(verifyWall(w, i), i), i + 1)

\* PowerManager::loadPowers() reading the lines of file
loadPowers(w, file) ==
    [verifyFrom(loadFrom(LoadStart(w), file, 1).w, 0) EXCEPT !.ret = TRUE]

-----------------------------------------------------------------------------
(* The state machine.                                                       *)

\* the program state as the world record the handlers work on
World ==
    [powers |-> powers, stats |-> stats, hazards |-> hazards, enemies |-> enemies,
     loot |-> loot, used_items |-> used_items, used_equipped_items |-> used_equipped_items,
     party_buffs |-> party_buffs, log_msg |-> log_msg, colmap |-> colmap, inpt |-> inpt,
     snd |-> snd, errors |-> errors, trace |-> trace, ret |-> FALSE, overflow |-> FALSE,
     stray |-> FALSE]

\* the next state is the world r a handler returned
Becomes(r) ==
    /\ powers' = r.powers
    /\ stats' = r.stats
    /\ hazards' = r.hazards
    /\ enemies' = r.enemies
    /\ loot' = r.loot
    /\ used_items' = r.used_items
    /\ used_equipped_items' = r.used_equipped_items
    /\ party_buffs' = r.party_buffs
    /\ log_msg' = r.log_msg
    /\ colmap' = r.colmap
    /\ inpt' = r.inpt
    /\ snd' = r.snd
    /\ errors' = r.errors
    /\ trace' = r.trace

\* the record of a call: its name and arguments, what it returned, the world before it
Called(op, power_index, target, r) ==
    [op |-> op, power_index |-> power_index, target |-> target, allow_zero |-> FALSE,
     ret |-> r.ret, overflow |-> r.overflow, stray |-> r.stray, pre |-> World]

\* the handler called returns the world r
Returns(op, power_index, target, r) ==
    /\ Becomes(r)
    /\ last' = Called(op, power_index, target, r)

NoCall ==
    [op |-> "none", power_index |-> 0, target |-> Pt(0, 0), allow_zero |-> FALSE,
     ret |-> FALSE, overflow |-> FALSE, stray |-> FALSE, pre |-> <<>>]

\* a map whose tiles are empty but for the walls given and the entity on the actor's tile
MapWith(walls, actor) ==
    [t \in Tiles |-> IF t \in walls THEN "wall"
                     ELSE IF t = actor THEN "entity" ELSE "empty"]

\* the tiles around tile t, on the map
Around(t) ==
    {u \in Tiles : u # t /\ Abs(u[1] - t[1]) <= 1 /\ Abs(u[2] - t[2]) <= 1}

\* the targets a caller may aim a power at: any aim where the strategy reads the target
TargetsFor(p, pos) ==
    IF \/ p.type \in {POWTYPE_MISSILE, POWTYPE_REPEATER, POWTYPE_SPAWN}
       \/ p.use_hazard \/ p.buff_teleport
    THEN Aims(pos)
    ELSE {pos}

\* the values rand() may yield during a call on power p
RandomsFor(p) ==
    LET av == Abs(p.angle_variance)
        vs == IF p.type = POWTYPE_MISSILE /\ av # 0
              THEN [0..MaxCount -> (1 - av)..(av - 1)]
              ELSE {NoRandom.variance}
        sv == IF p.type = POWTYPE_MISSILE /\ p.speed_variance # 0
              THEN {-p.speed_variance, 0, p.speed_variance} ELSE {0}
        pk == IF p.type = POWTYPE_SPAWN \/ p.target_neighbor > 0 THEN 0..7 ELSE {0}
    IN  [variance : vs, speed_var : sv, pick : pk, roll : {0, 1}]

\* the PowerManager's queues and collaborators right after construction
InitRest ==
    /\ hazards = <<>>
    /\ enemies = <<>>
    /\ loot = <<>>
    /\ used_items = <<>>
    /\ party_buffs = <<>>
    /\ log_msg = ""
    /\ inpt = [locked |-> FALSE, lock_calls |-> 0, unlock_calls |-> 0]
    /\ snd = 0
    /\ errors = 0
    /\ trace = <<>>
    /\ last = NoCall

-----------------------------------------------------------------------------
(* Specification Spec: one activate call on a loaded table, from any state *)
(* of the actor.  Slot 1 holds the power called, slot 2 a power it may     *)
(* chain to through post_power.                                             *)

\* a power that costs a carried item (twice), an equipped item and plays a sound
Costly(p) ==
    [p EXCEPT !.requires_item = 7, !.requires_item_quantity = 2,
              !.requires_equipped_item = 9, !.requires_equipped_item_quantity = 1,
              !.sfx_index = 0]

Mend == [id |-> "mend", magnitude |-> 1, duration |-> 5]

Ward == [id |-> "ward", magnitude |-> 1, duration |-> 5]

\* one power of each strategy, as powers.txt may define them
Templates ==
    { Costly([DefaultPower EXCEPT !.type = POWTYPE_FIXED, !.buff = TRUE,
                                  !.post_effects = <<Mend>>, !.loot = <<"gold">>]),
      Costly([DefaultPower EXCEPT !.type = POWTYPE_FIXED, !.use_hazard = TRUE,
                                  !.count = 2, !.delay = 3,
                                  !.base_damage = BASE_DAMAGE_MELEE]),
      Costly([DefaultPower EXCEPT !.type = POWTYPE_MISSILE, !.count = 2,
                                  !.missile_angle = 30, !.speed = 500]),
      Costly([DefaultPower EXCEPT !.type = POWTYPE_REPEATER, !.count = 2,
                                  !.speed = 1000, !.delay = 2]),
      Costly([DefaultPower EXCEPT !.type = POWTYPE_SPAWN, !.spawn_type = "zombie"]),
      Costly([DefaultPower EXCEPT !.type = POWTYPE_SPAWN, !.spawn_type = "zombie",
                                  !.starting_pos = STARTING_POS_TARGET, !.count = 2,
                                  !.buff = TRUE, !.post_effects = <<Ward>>]),
      Costly([DefaultPower EXCEPT !.type = POWTYPE_TRANSFORM, !.spawn_type = "wolf",
                                  !.buff = TRUE, !.post_effects = <<Ward>>]),
      Costly([DefaultPower EXCEPT !.type = POWTYPE_TRANSFORM, !.spawn_type = "bear",
                                  !.transform_duration = 5, !.manual_untransform = TRUE,
                                  !.untransform_on_hit = TRUE]),
      Costly([DefaultPower EXCEPT !.type = POWTYPE_TRANSFORM, !.spawn_type = "untransform",
                                  !.buff = TRUE, !.post_effects = <<Ward>>]),
      Costly([DefaultPower EXCEPT !.type = POWTYPE_BLOCK, !.post_effects = <<Ward>>]),
      Costly(DefaultPower) }

\* the power slot 1 may chain to
ChainPower ==
    [DefaultPower EXCEPT !.type = POWTYPE_FIXED, !.buff = TRUE, !.post_effects = <<Ward>>,
                         !.requires_mp = 1, !.requires_hp = 1, !.sfx_index = 0]

\* the strategies that reach buff, and with it post_power
Chains(p) ==
    p.type \in {POWTYPE_FIXED, POWTYPE_SPAWN, POWTYPE_TRANSFORM}

\* the tile the actor stands on
ActorTile == <<1, 1>>

\* the maps explored with power p: open ground, the actor walled in, the actor over a pit
MapsFor(p) ==
    {MapWith({}, ActorTile)}
    \cup (IF p.type \in {POWTYPE_SPAWN, POWTYPE_REPEATER}
          THEN {MapWith(Around(ActorTile), ActorTile)} ELSE {})
    \cup (IF p.type \in {POWTYPE_TRANSFORM, POWTYPE_SPAWN}
          THEN {MapWith({ActorTile}, ActorTile)} ELSE {})

Init ==
    /\ \E t \in Templates, m \in 0..MaxCost, h \in 0..MaxCost, sac \in BOOLEAN :
        \E pp \in (IF Chains(t) THEN {0, 2} ELSE {0}) :
            powers = [i \in 0..2 |->
                        IF i = 0 THEN DefaultPower
                        ELSE IF i = 2 THEN ChainPower
                        ELSE [t EXCEPT !.requires_mp = m, !.requires_hp = h,
                                       !.sacrifice = sac, !.post_power = pp]]
    /\ \E hero \in BOOLEAN, hp \in 0..MaxStat :
        \E mp \in (IF hero THEN 0..MaxStat ELSE {0}) :
        \E tr \in (IF powers[1].type = POWTYPE_TRANSFORM THEN BOOLEAN ELSE {FALSE}) :
        \E bl \in (IF powers[1].type = POWTYPE_BLOCK THEN BOOLEAN ELSE {FALSE}) :
            stats = [NewStatBlock EXCEPT !.hero = hero, !.hp = hp, !.mp = mp,
                                         !.transformed = tr,
                                         !.transform_type = IF tr THEN "wolf" ELSE "",
                                         !.transform_duration = IF tr THEN -1 ELSE 0,
                                         !.effects.triggered_block = bl]
    /\ colmap \in MapsFor(powers[1])
    /\ used_equipped_items = <<>>
    /\ infile = <<>>
    /\ InitRest

\* the targets a caller of Spec aims at
SomeAims(p, pos) ==
    TargetsFor(p, pos) \cap {pos, Centre(2, 1), Centre(1, 0)}

\* the power a caller names, the default power for an index outside the table
PowerAt(power_index) ==
    IF power_index \in DOMAIN powers THEN powers[power_index] ELSE DefaultPower

\* the call activate(power_index, &stats, target) with rnd the values rand() yields
ActivateWith(power_index, target, rnd) ==
    /\ Returns("activate", power_index, target,
               activate(World, power_index, target, rnd, MaxDepth))
    /\ UNCHANGED infile

\* a caller invokes activate once, on an index inside or outside the table
Activate ==
    /\ last.op = "none"
    /\ \E power_index \in {-1, 1, TableSize(powers)} :
        \E target \in SomeAims(PowerAt(power_index), stats.pos),
           rnd \in RandomsFor(PowerAt(power_index)) :
            ActivateWith(power_index, target, rnd)

\* a caller invokes activate once on power 1, aiming anywhere
ActivateAnywhere ==
    /\ last.op = "none"
    /\ \E target \in TargetsFor(powers[1], stats.pos), rnd \in RandomsFor(powers[1]) :
            ActivateWith(1, target, rnd)

Next == Activate

Spec == Init /\ [][Next]_vars

-----------------------------------------------------------------------------
(* Properties of one activate call (specification Spec).                    *)

\* the call recorded in last was activate on a power of the table
ActivatedPower ==
    /\ last.op = "activate"
    /\ last.power_index \in DOMAIN last.pre.powers

\* the power and the actor the recorded call started from
CalledPower == last.pre.powers[last.power_index]

CallerStats == last.pre.stats

\* the recorded call returned false and left mp, hp, the effect stack and every queue as
\* they were
FailedUntouched ==
    /\ last.ret = FALSE
    /\ stats.mp = CallerStats.mp
    /\ stats.hp = CallerStats.hp
    /\ stats.effects = CallerStats.effects
    /\ hazards = last.pre.hazards
    /\ enemies = last.pre.enemies
    /\ loot = last.pre.loot
    /\ used_items = last.pre.used_items
    /\ used_equipped_items = last.pre.used_equipped_items
    /\ party_buffs = last.pre.party_buffs

\* C1: for a hero and a power whose requires_mp exceeds the hero's mp, activate returns
\* false and mp, hp, the effect stack and the hazard, spawn, loot, used-item and
\* used-equipped-item queues are what they were before the call.
C1_NoManaNoChange ==
    (ActivatedPower /\ CallerStats.hero /\ CalledPower.requires_mp > CallerStats.mp)
        => FailedUntouched

\* a hero short of mana called a power that could otherwise act
C1_Witness ==
    /\ ActivatedPower
    /\ CallerStats.hero
    /\ CalledPower.requires_mp > CallerStats.mp
    /\ CalledPower.type = POWTYPE_FIXED
    /\ CalledPower.requires_hp < CallerStats.hp
    /\ last.ret = FALSE

\* C2: for an actor with hp > 0 and a power with sacrifice = false whose requires_hp is at
\* least the actor's hp, activate returns false and changes nothing (hp, mp, effects and
\* every queue); an actor with hp = 0 is not held back by this test.
C2_NoHealthNoChange ==
    (/\ ActivatedPower
     /\ CallerStats.hp > 0
     /\ CalledPower.sacrifice = FALSE
     /\ CalledPower.requires_hp >= CallerStats.hp)
        => (FailedUntouched /\ World = last.pre)

\* a living actor with mana enough called a power whose hp cost it cannot survive
C2_Witness ==
    /\ ActivatedPower
    /\ CallerStats.hp > 0
    /\ CalledPower.sacrifice = FALSE
    /\ CalledPower.requires_hp >= CallerStats.hp
    /\ CalledPower.requires_mp <= CallerStats.mp
    /\ CalledPower.type \in {POWTYPE_FIXED, POWTYPE_MISSILE}
    /\ last.ret = FALSE

\* C2 as stated, for every hp including 0: a power with sacrifice = false whose requires_hp
\* is at least the actor's hp fails and changes nothing.
C2_AsStated ==
    (/\ ActivatedPower
     /\ CalledPower.sacrifice = FALSE
     /\ CalledPower.requires_hp >= CallerStats.hp)
        => FailedUntouched

\* C3: an "untransform" power called while the actor is not transformed fails: activate
\* returns false, transform_type and transform_duration keep their values, no cost is
\* paid, no effect is applied and the actor's tile is blocked or not as it was.
C3_UntransformRejected ==
    (/\ ActivatedPower
     /\ CalledPower.type = POWTYPE_TRANSFORM
     /\ CalledPower.spawn_type = "untransform"
     /\ ~CallerStats.transformed)
        => /\ FailedUntouched
           /\ stats.transform_type = CallerStats.transform_type
           /\ stats.transform_duration = CallerStats.transform_duration
           /\ colmap = last.pre.colmap

\* the recorded call passed the tests activate makes before it dispatches
PassedTests ==
    /\ ActivatedPower
    /\ ~(CallerStats.hero /\ CalledPower.requires_mp > CallerStats.mp)
    /\ ~(/\ CallerStats.hp > 0
         /\ CalledPower.sacrifice = FALSE
         /\ CalledPower.requires_hp >= CallerStats.hp)

\* C13: a spawn activation that finds no empty tile (it fails although the tests before
\* the dispatch passed) has no side effects: no spawn request is queued, mp, hp and the
\* item queues are unchanged, no effect is applied and no sound is played.
C13_SpawnBlockedNoEffect ==
    (PassedTests /\ CalledPower.type = POWTYPE_SPAWN /\ last.ret = FALSE) =>
        /\ enemies = last.pre.enemies
        /\ stats.mp = CallerStats.mp
        /\ stats.hp = CallerStats.hp
        /\ used_items = last.pre.used_items
        /\ used_equipped_items = last.pre.used_equipped_items
        /\ stats.effects = CallerStats.effects
        /\ snd = last.pre.snd
        /\ World = last.pre

\* a hero walled in called a spawn power that costs mp and an item and has a sound, and
\* the call failed
C13_Witness ==
    /\ PassedTests
    /\ CalledPower.type = POWTYPE_SPAWN
    /\ CallerStats.hero
    /\ CalledPower.requires_mp > 0
    /\ CalledPower.requires_item # -1
    /\ CalledPower.sfx_index # -1
    /\ \A t \in Around(ActorTile) : last.pre.colmap[t] = "wall"
    /\ last.ret = FALSE

\* the actor's transform fields
TransformFields(s) ==
    <<s.transformed, s.transform_type, s.transform_duration, s.manual_untransform,
      s.transform_with_equipment, s.untransform_on_hit>>

\* the actor's trigger flags
TriggerFlags(e) ==
    <<e.triggered_others, e.triggered_block, e.triggered_hit, e.triggered_halfdeath,
      e.triggered_joincombat, e.triggered_death>>

\* why the recorded call of activate failed
FailureReason ==
    IF ~ActivatedPower THEN "id out of range"
    ELSE IF CallerStats.hero /\ CalledPower.requires_mp > CallerStats.mp THEN "mp"
    ELSE IF ~PassedTests THEN "hp"
    ELSE IF CalledPower.type = POWTYPE_BLOCK THEN "already blocking"
    ELSE IF CalledPower.type = POWTYPE_SPAWN THEN "no empty tile"
    ELSE IF CalledPower.type # POWTYPE_TRANSFORM THEN "no such type"
    ELSE IF CalledPower.spawn_type = "untransform" THEN "untransform position"
    ELSE "already transformed"

\* C14: whenever activate returns false, for whatever reason, the actor's hp, mp, effect
\* stack, transform fields and trigger flags and the hazard, spawn, loot, used-item and
\* used-equipped-item queues are what they were before the call.
C14_FailureLeavesActor ==
    (last.op = "activate" /\ last.ret = FALSE) =>
        /\ stats.hp = last.pre.stats.hp
        /\ stats.mp = last.pre.stats.mp
        /\ stats.effects.list = last.pre.stats.effects.list
        /\ TransformFields(stats) = TransformFields(last.pre.stats)
        /\ TriggerFlags(stats.effects) = TriggerFlags(last.pre.stats.effects)
        /\ hazards = last.pre.hazards
        /\ enemies = last.pre.enemies
        /\ loot = last.pre.loot
        /\ used_items = last.pre.used_items
        /\ used_equipped_items = last.pre.used_equipped_items

\* a transformed hero over a pit called an untransform power that costs mp, and it failed
C14_Witness ==
    /\ last.op = "activate"
    /\ last.ret = FALSE
    /\ FailureReason = "untransform position"
    /\ CallerStats.transformed
    /\ CalledPower.requires_mp > 0
    /\ colmap = last.pre.colmap

\* slot i of the table is what it was before the recorded call
SlotKept(i) ==
    powers[i] = last.pre.powers[i]

\* slot i holds a block power and differs from what it was before the recorded call in
\* its passive_trigger alone, which is now TRIGGER_BLOCK
SlotMarkedBlock(i) ==
    /\ last.pre.powers[i].type = POWTYPE_BLOCK
    /\ powers[i] = [last.pre.powers[i] EXCEPT !.passive_trigger = TRIGGER_BLOCK]

\* C15 as the claim has it: no call of activate changes any field of any power
C15_AsStated ==
    (last.op = "activate") => powers = last.pre.powers

\* C15, amended: a call of activate leaves the table's size and every slot as they were,
\* but for one field: a block power that activates successfully has its passive_trigger
\* set to TRIGGER_BLOCK.
C15_TableKeptButBlockTrigger ==
    (last.op = "activate") =>
        /\ DOMAIN powers = DOMAIN last.pre.powers
        /\ \A i \in DOMAIN powers : SlotKept(i) \/ SlotMarkedBlock(i)
        /\ (ActivatedPower /\ CalledPower.type = POWTYPE_BLOCK /\ last.ret = TRUE) =>
                powers[last.power_index].passive_trigger = TRIGGER_BLOCK
        /\ (ActivatedPower /\ ~(CalledPower.type = POWTYPE_BLOCK /\ last.ret = TRUE)) =>
                powers = last.pre.powers

\* a block power loaded without a passive trigger was activated and the table changed
C15_Witness ==
    /\ ActivatedPower
    /\ CalledPower.type = POWTYPE_BLOCK
    /\ CalledPower.passive_trigger # TRIGGER_BLOCK
    /\ last.ret = TRUE
    /\ powers # last.pre.powers

\* C16: a power that is no sacrifice never kills its user: an actor with hp > 0 who
\* activates a power with sacrifice = false has hp > 0 when activate returns, a power
\* chained through buff included.
C16_NonSacrificeSurvives ==
    (ActivatedPower /\ CallerStats.hp > 0 /\ CalledPower.sacrifice = FALSE) =>
        stats.hp > 0

\* the recorded call is an untransform power activated by a transformed actor who passed
\* the tests of activate
Untransforming ==
    /\ PassedTests
    /\ CalledPower.type = POWTYPE_TRANSFORM
    /\ CalledPower.spawn_type = "untransform"
    /\ CallerStats.transformed

\* the actor's position, with the actor's own tile unblocked, is valid for normal movement
CouldStandHere ==
    is_valid_position(unblock(last.pre.colmap, CallerStats.pos.x, CallerStats.pos.y),
                      CallerStats.pos.x, CallerStats.pos.y)

\* C27: an untransform by a transformed actor at a position that is not valid for normal
\* movement returns false with a message, releases the action-bar lock it took, leaves
\* transform_type and transform_duration as they were and pays no cost; whether the call
\* succeeds or fails, the actor's tile is blocked again when it returns.
C27_UntransformAtBadPosition ==
    Untransforming =>
        /\ last.ret = CouldStandHere
        /\ ~CouldStandHere =>
                /\ log_msg = "Could not untransform at this position."
                /\ ~inpt.locked
                /\ inpt.lock_calls = last.pre.inpt.lock_calls + 1
                /\ inpt.unlock_calls = last.pre.inpt.unlock_calls + 1
                /\ stats = CallerStats
                /\ used_items = last.pre.used_items
                /\ used_equipped_items = last.pre.used_equipped_items
                /\ snd = last.pre.snd
        /\ CouldStandHere =>
                /\ stats.transform_type = "untransform"
                /\ stats.transform_duration = 0
                /\ inpt.locked
        /\ colmap = last.pre.colmap
        /\ ~is_empty(colmap, stats.pos.x, stats.pos.y)

\* a transformed hero standing where no walker can stand activated an untransform power
\* that costs mp and an item, and it failed
C27_Witness ==
    /\ Untransforming
    /\ ~CouldStandHere
    /\ CallerStats.hero
    /\ CalledPower.requires_mp > 0
    /\ CalledPower.requires_item # -1
    /\ CallerStats.transform_type = "wolf"
    /\ last.ret = FALSE
    /\ ~inpt.locked

\* the spawn requests the recorded call enqueued, in queue order
Spawned ==
    SubSeq(enemies, Len(last.pre.enemies) + 1, Len(enemies))

\* the tile the spawn power of the recorded call declares as its starting position
DeclaredStart ==
    spawnStart(last.pre, last.power_index, last.target)

\* the free tiles next to the actor of the recorded call, as spawn positions
FreeNextToCaller ==
    LET tiles == NeighborTiles(last.pre.colmap, FloorPt(CallerStats.pos), 1, FALSE)
    IN  {FloorPt(tiles[n]) : n \in 1..Len(tiles)}

\* C30: every spawn request a spawn power enqueues is at a tile the collision map reports
\* empty; a successful activation enqueues exactly count requests, all equal; and when the
\* declared starting tile is occupied and target_neighbor < 1 the requests are at a tile
\* the neighbor search of radius 1 around the actor yields.
C30_SpawnRequests ==
    (PassedTests /\ CalledPower.type = POWTYPE_SPAWN) =>
        /\ Len(enemies) >= Len(last.pre.enemies)
        /\ SubSeq(enemies, 1, Len(last.pre.enemies)) = last.pre.enemies
        /\ colmap = last.pre.colmap
        /\ \A i \in 1..Len(Spawned) :
                /\ is_empty(colmap, Spawned[i].pos.x, Spawned[i].pos.y)
                /\ Spawned[i] = Spawned[1]
                /\ Spawned[i].type = CalledPower.spawn_type
                /\ Spawned[i].summon_power_index = last.power_index
                /\ Spawned[i].hero_ally = (CallerStats.hero \/ CallerStats.hero_ally)
        /\ Len(Spawned) = (IF last.ret THEN CalledPower.count ELSE 0)
        /\ (/\ ~is_empty(last.pre.colmap, DeclaredStart.x, DeclaredStart.y)
            /\ CalledPower.target_neighbor < 1)
                => /\ last.ret = (FreeNextToCaller # {})
                   /\ \A i \in 1..Len(Spawned) : Spawned[i].pos \in FreeNextToCaller

\* a spawn power of count 2 aimed at a wall tile enqueued two equal requests at a free
\* tile next to the actor
C30_Witness ==
    /\ PassedTests
    /\ CalledPower.type = POWTYPE_SPAWN
    /\ CalledPower.count = 2
    /\ CalledPower.target_neighbor < 1
    /\ CalledPower.starting_pos = STARTING_POS_TARGET
    /\ ~is_empty(last.pre.colmap, DeclaredStart.x, DeclaredStart.y)
    /\ last.ret = TRUE
    /\ Len(Spawned) = 2
    /\ Spawned[1] = Spawned[2]
    /\ Spawned[1].pos \in FreeNextToCaller

\* the recorded call is a transform power, no untransform, that passed the tests of
\* activate
Transforming ==
    /\ PassedTests
    /\ CalledPower.type = POWTYPE_TRANSFORM
    /\ CalledPower.spawn_type # "untransform"

\* C28: a transform power that is no untransform is rejected when the actor is already
\* transformed: activate returns false with a message and the transform fields, hp and mp
\* are unchanged, with no buff, sound or cost.  On an actor not transformed it succeeds,
\* sets transform_type to the power's spawn_type and transform_duration to -1 for a
\* configured duration of 0 and to the configured duration when that is positive.
C28_TransformOnce ==
    Transforming =>
        IF CallerStats.transformed
        THEN /\ last.ret = FALSE
             /\ log_msg = "You are already transformed, untransform first."
             /\ stats = CallerStats
             /\ snd = last.pre.snd
             /\ used_items = last.pre.used_items
             /\ used_equipped_items = last.pre.used_equipped_items
        ELSE /\ last.ret = TRUE
             /\ stats.transform_type = CalledPower.spawn_type
             /\ CalledPower.transform_duration = 0 => stats.transform_duration = -1
             /\ CalledPower.transform_duration > 0 =>
                    stats.transform_duration = CalledPower.transform_duration
             /\ stats.manual_untransform = CalledPower.manual_untransform
             /\ stats.untransform_on_hit = CalledPower.untransform_on_hit
             /\ stats.transform_with_equipment = CalledPower.keep_equipment

\* a hero transformed into a wolf activated the bear power, which has a buff, a sound and
\* a cost, and was rejected
C28_Witness ==
    /\ Transforming
    /\ CallerStats.transformed
    /\ CallerStats.transform_type = "wolf"
    /\ CalledPower.spawn_type = "bear"
    /\ CalledPower.requires_mp > 0
    /\ CalledPower.sfx_index # -1
    /\ last.ret = FALSE
    /\ stats.transform_type = "wolf"

\* the recorded call succeeded on a power that chains no post_power
SucceededUnchained ==
    /\ PassedTests
    /\ last.ret = TRUE
    /\ CalledPower.post_power = 0

\* the power of the recorded call lists a post_effect whose definition is a heal
HealsCaller ==
    \E i \in 1..Len(CalledPower.post_effects) :
        LET d == getEffectDef(EffectTable, CalledPower.post_effects[i].id)
        IN  d # 0 /\ EffectTable[d].type = "heal"

\* the cost of the recorded call, as payPowerCost takes it once from the caller
PaidOnceFrom(hp) ==
    /\ stats.hp = hp
    /\ CallerStats.hero =>
            /\ stats.mp = CallerStats.mp - CalledPower.requires_mp
            /\ used_items = last.pre.used_items
                    \o (IF CalledPower.requires_item # -1
                        THEN Repeat(CalledPower.requires_item,
                                    CalledPower.requires_item_quantity)
                        ELSE <<>>)
    /\ ~CallerStats.hero =>
            /\ stats.mp = CallerStats.mp
            /\ used_items = last.pre.used_items
            /\ used_equipped_items = last.pre.used_equipped_items

\* C31 as stated: after a successful activation of a power without post_power, whatever
\* the power, hp is max(0, hp - requires_hp), a hero has lost requires_mp and queued
\* requires_item_quantity uses of requires_item, and a non-hero keeps mp and both queues.
C31_AsStated ==
    SucceededUnchained =>
        PaidOnceFrom(Max(0, CallerStats.hp - CalledPower.requires_hp))

\* C31: a successful activation of a power without post_power and without a heal among
\* its post_effects pays its cost exactly once, whatever its type and count: hp becomes
\* max(0, hp - requires_hp), a hero loses exactly requires_mp and gets exactly
\* requires_item_quantity uses of requires_item appended to used_items, and a non-hero
\* keeps its mp and both item queues.  With a heal the mp and the queues are as stated
\* and hp is at least max(0, hp - requires_hp).
C31_PaidOnce ==
    SucceededUnchained =>
        /\ ~HealsCaller => PaidOnceFrom(Max(0, CallerStats.hp - CalledPower.requires_hp))
        /\ HealsCaller =>
                /\ PaidOnceFrom(stats.hp)
                /\ stats.hp >= Max(0, CallerStats.hp - CalledPower.requires_hp)

\* a hero fired a missile power of count 2 that costs mp, hp and two uses of an item,
\* and paid each once
C31_Witness ==
    /\ SucceededUnchained
    /\ CalledPower.type = POWTYPE_MISSILE
    /\ CalledPower.count = 2
    /\ CallerStats.hero
    /\ CalledPower.requires_mp > 0
    /\ CalledPower.requires_hp > 0
    /\ stats.mp = CallerStats.mp - CalledPower.requires_mp
    /\ stats.hp = CallerStats.hp - CalledPower.requires_hp
    /\ Len(used_items) = Len(last.pre.used_items) + 2

\* C36: the action-bar lock transform takes at its start is released when an untransform
\* fails at an invalid position and is not released when a transform is turned away
\* because the actor is already transformed: the action bar is then still locked when
\* the call returns.
C36_LockLeftHeld ==
    /\ (Transforming /\ CallerStats.transformed) =>
            /\ last.ret = FALSE
            /\ inpt.locked
            /\ inpt.lock_calls = last.pre.inpt.lock_calls + 1
            /\ inpt.unlock_calls = last.pre.inpt.unlock_calls
    /\ (Untransforming /\ ~CouldStandHere) =>
            /\ last.ret = FALSE
            /\ ~inpt.locked
            /\ inpt.unlock_calls = last.pre.inpt.unlock_calls + 1

\* the action bar was free, a transformed actor asked for another form and was turned
\* away, and the action bar is locked
C36_Witness ==
    /\ Transforming
    /\ CallerStats.transformed
    /\ ~last.pre.inpt.locked
    /\ last.ret = FALSE
    /\ log_msg = "You are already transformed, untransform first."
    /\ inpt.locked
    /\ inpt.unlock_calls = 0

\* C34: a hero whose mp is not negative, with a table of non-negative requires_mp, has
\* mp >= 0 after every activation, those that chain a post_power through buff included.
C34_ManaNeverNegative ==
    stats.hero => stats.mp >= 0

-----------------------------------------------------------------------------
(* Specification SpecPassive: the per-frame passive scan of one actor over  *)
(* its unlocked passives and its item passives, between events of the game  *)
(* (damage taken, combat joined, a passive unlocked in the powers menu).    *)

\* a passive power with the trigger given, applying one effect to its owner
PassivePower(trigger, pe) ==
    [DefaultPower EXCEPT !.type = POWTYPE_FIXED, !.passive = TRUE,
                         !.passive_trigger = trigger, !.buff = TRUE,
                         !.post_effects = <<pe>>]

\* the table scanned: an on-half-death passive, two unconditional ones, an on-join-combat
\* one, an on-hit one and an active power
PassiveTable ==
    [i \in 0..6 |->
        IF i = 1 THEN PassivePower(TRIGGER_HALFDEATH, Ward)
        ELSE IF i = 2 THEN PassivePower(-1, Ward)
        ELSE IF i = 3 THEN PassivePower(-1, Mend)
        ELSE IF i = 4 THEN PassivePower(TRIGGER_JOINCOMBAT, Ward)
        ELSE IF i = 5 THEN PassivePower(TRIGGER_HIT, Ward)
        ELSE IF i = 6 THEN [DefaultPower EXCEPT !.type = POWTYPE_FIXED, !.buff = TRUE,
                                                !.post_effects = <<Ward>>]
        ELSE DefaultPower]

\* the unlocked passives an actor may hold
PassiveLists == {<<1, 2>>, <<2, 2, 3, 1>>, <<1, 4, 5>>, <<6, 3>>}

\* the passives its items may grant
ItemLists == {<<>>, <<3, 1>>, <<5, 2>>}

InitPassive ==
    /\ powers = PassiveTable
    /\ \E pl \in PassiveLists, il \in ItemLists, hp \in 0..MaxStat, others \in BOOLEAN,
          blocking \in BOOLEAN :
            stats = [NewStatBlock EXCEPT !.powers_passive = pl, !.powers_list_items = il,
                                         !.hp = hp, !.effects.triggered_others = others,
                                         !.effects.triggered_block = blocking]
    /\ colmap = MapWith({}, ActorTile)
    /\ used_equipped_items = <<>>
    /\ infile = <<>>
    /\ InitRest

\* an event of the game outside the PowerManager
Event == [NoCall EXCEPT !.op = "event"]

\* StatBlock::logic calls activatePassives(&stats)
Scan ==
    /\ Len(stats.effects.list) <= MaxEffects
    /\ Returns("activatePassives", 0, stats.pos, activatePassives(World, NoRandom, MaxDepth))
    /\ UNCHANGED infile

\* the powers menu unlocks passive id: activateSinglePassive(&stats, id)
Unlock ==
    /\ Len(stats.effects.list) <= MaxEffects
    /\ \E id \in 1..(TableSize(powers) - 1) :
            Returns("activateSinglePassive", id, stats.pos,
                    activateSinglePassive(World, id, NoRandom, MaxDepth))
    /\ UNCHANGED infile

\* the actor takes a hit of one point, and dies of it at hp 0
Hurt ==
    /\ stats.hp > 0
    /\ stats' = [stats EXCEPT !.hp = @ - 1, !.effects.triggered_hit = TRUE,
                              !.effects.triggered_death = (stats.hp = 1)]
    /\ last' = Event
    /\ UNCHANGED <<powers, hazards, enemies, loot, used_items, used_equipped_items,
                   party_buffs, log_msg, colmap, inpt, snd, errors, trace, infile>>

\* the actor joins combat
JoinCombat ==
    /\ ~stats.in_combat
    /\ stats' = [stats EXCEPT !.in_combat = TRUE]
    /\ last' = Event
    /\ UNCHANGED <<powers, hazards, enemies, loot, used_items, used_equipped_items,
                   party_buffs, log_msg, colmap, inpt, snd, errors, trace, infile>>

NextPassive ==
    \/ Scan
    \/ Unlock
    \/ Hurt
    \/ JoinCombat

SpecPassive == InitPassive /\ [][NextPassive]_vars

\* the recorded call was a scan
Scanned == last.op = "activatePassives"

\* id names a passive with trigger tr in the table the recorded call started from
WasPassive(id, tr) ==
    last.pre.powers[id].passive /\ last.pre.powers[id].passive_trigger = tr

\* the entries of list that are passives with trigger tr, in order
PassivesOf(list, tr) ==
    LET Test(id) == WasPassive(id, tr)
    IN  SelectSeq(list, Test)

\* C4: across scans, an on-half-death passive is activated at most once: the scan that
\* finds hp <= hp_max/2 sets triggered_halfdeath and fires it, and no entry of it is
\* activated again in that scan or in a scan that starts with the flag set.
C4_HalfDeathOnce ==
    Scanned =>
        /\ Len(PassivesOf(trace, TRIGGER_HALFDEATH)) <= 1
        /\ last.pre.stats.effects.triggered_halfdeath
                => PassivesOf(trace, TRIGGER_HALFDEATH) = <<>>

\* C17: across scans, an on-join-combat passive is activated at most once: the first
\* scan that finds in_combat true sets triggered_joincombat and fires it, and no scan
\* that starts with the flag set activates it.
C17_JoinCombatOnce ==
    Scanned =>
        /\ Len(PassivesOf(trace, TRIGGER_JOINCOMBAT)) <= 1
        /\ last.pre.stats.effects.triggered_joincombat
                => PassivesOf(trace, TRIGGER_JOINCOMBAT) = <<>>

\* C20: when activatePassives returns, triggered_hit and triggered_death are false, and
\* a scan never clears triggered_block: an actor blocking before the scan is blocking
\* after it.
C20_ScanResetsHitAndDeath ==
    Scanned =>
        /\ ~stats.effects.triggered_hit
        /\ ~stats.effects.triggered_death
        /\ last.pre.stats.effects.triggered_block => stats.effects.triggered_block

\* a blocking actor who had just died of a hit was scanned
C20_Witness ==
    /\ Scanned
    /\ last.pre.stats.effects.triggered_hit
    /\ last.pre.stats.effects.triggered_death
    /\ last.pre.stats.effects.triggered_block
    /\ stats.effects.triggered_block
    /\ trace # <<>>

\* C5: a scan skips the unconditional passives only when the actor's triggered_others
\* flag was set before the scan began; a scan that begins with the flag clear activates
\* every unconditional entry of powers_passive and then of powers_list_items, each once
\* and in list order (so several may fire in one scan), and leaves the flag set.
C5_UnconditionalPerScan ==
    Scanned =>
        IF last.pre.stats.effects.triggered_others
        THEN PassivesOf(trace, -1) = <<>>
        ELSE /\ PassivesOf(trace, -1) =
                    PassivesOf(last.pre.stats.powers_passive, -1)
                    \o PassivesOf(last.pre.stats.powers_list_items, -1)
             /\ PassivesOf(trace, -1) # <<>> => stats.effects.triggered_others

\* a scan that began with the flag clear fired unconditional passives of both lists
C5_Witness ==
    /\ Scanned
    /\ ~last.pre.stats.effects.triggered_others
    /\ Len(PassivesOf(last.pre.stats.powers_passive, -1)) >= 2
    /\ Len(PassivesOf(last.pre.stats.powers_list_items, -1)) >= 1
    /\ Len(PassivesOf(trace, -1)) >= 3

\* C5 as stated: no scan activates two unconditional passives.
C5_AsStated ==
    Scanned => Len(PassivesOf(trace, -1)) <= 1

-----------------------------------------------------------------------------
(* Specification SpecLoad: the constructor's loadPowers over a powers.txt   *)
(* whose first line is an id line (the fields of a power follow its id).    *)

IdLine(n) == [key |-> "id", val |-> <<Spelled(n)>>]

EffectLine(id) == [key |-> "post_effect", val |-> <<id, "1", "5">>]

\* the lines of the files that interleave blocks of post_effect lines
BlockLines ==
    {IdLine(1), IdLine(2), EffectLine("ward"), EffectLine("speed"), EffectLine("bogus"),
     [key |-> "post_power", val |-> <<"2">>],
     [key |-> "loot", val |-> <<"gold">>], [key |-> "loot", val |-> <<"gem">>]}

\* the other lines a file may hold
OtherLines ==
    {IdLine(0), IdLine(-1),
     [key |-> "type", val |-> <<"fixed">>], [key |-> "type", val |-> <<"beam">>],
     [key |-> "requires_equipped_item", val |-> <<"9", "2">>],
     [key |-> "wall_power", val |-> <<"7">>], [key |-> "wall_power", val |-> <<"1">>],
     [key |-> "post_power", val |-> <<"-1">>], [key |-> "colour", val |-> <<"red">>]}

\* the files of n lines over alphabet whose first line is an id line
FilesOf(alphabet, n) ==
    {f \in [1..n -> alphabet] : n > 0 => f[1].key = "id"}

\* the files read
Files ==
    (UNION {FilesOf(BlockLines, n) : n \in 0..MaxLines})
    \cup (UNION {FilesOf(BlockLines \cup OtherLines, n) : n \in 1..3})

\* the table before the constructor's loadPowers
NoPowers == [i \in {} |-> DefaultPower]

InitLoad ==
    /\ powers = NoPowers
    /\ stats = NewStatBlock
    /\ colmap = MapWith({}, ActorTile)
    /\ used_equipped_items = <<>>
    /\ InitRest
    /\ infile \in Files

\* the constructor calls loadPowers()
Load ==
    /\ last.op = "none"
    /\ Returns("loadPowers", 0, Pt(0, 0), loadPowers(World, infile))
    /\ UNCHANGED infile

NextLoad == Load

SpecLoad == InitLoad /\ [][NextLoad]_vars

\* the index of the id line that opens the block line i belongs to
BlockOf(i) ==
    CHOOSE j \in 1..i : infile[j].key = "id" /\ \A k \in (j + 1)..i : infile[k].key # "id"

\* the post_effect lines of power id, by line number
EffectLinesOf(id) ==
    {i \in 1..Len(infile) : infile[i].key = "post_effect" /\ toInt(infile[BlockOf(i)].val[1]) = id}

RECURSIVE Ascending(_)
\* the members of a set of numbers, in ascending order
Ascending(S) ==
    IF S = {} THEN <<>>
    ELSE LET m == CHOOSE x \in S : \A y \in S : x <= y
         IN  <<m>> \o Ascending(S \ {m})

\* the effects the lines numbered in S name, in file order, the unknown ones left out
EffectsAt(S) ==
    LET ix == Ascending({i \in S : isValidEffect(infile[i].val[1])})
    IN  [k \in 1..Len(ix) |-> [id |-> infile[ix[k]].val[1], magnitude |-> toInt(infile[ix[k]].val[2]),
                               duration |-> toInt(infile[ix[k]].val[3])]]

\* the last block of power id that holds a post_effect line
LastEffectBlock(id) ==
    BlockOf(CHOOSE i \in EffectLinesOf(id) : \A j \in EffectLinesOf(id) : j <= i)

\* the ids the file defines
LoadedIds == {id \in 1..2 : \E i \in 1..Len(infile) : infile[i] = IdLine(id)}

\* power id has post_effect lines in two blocks with a block of another id between them
TwoBlocks(id) ==
    \E i, j \in EffectLinesOf(id) :
        /\ i < j
        /\ BlockOf(i) # BlockOf(j)
        /\ \E k \in (i + 1)..(j - 1) : infile[k].key = "id" /\ toInt(infile[k].val[1]) # id

\* C6: a loaded power's post_effects are the valid effects of the last of its id-blocks
\* that holds a post_effect line, in file order: the first post_effect line after an id
\* line clears what the earlier blocks of that id had listed.
C6_LastBlockWins ==
    last.op = "loadPowers" =>
        \A id \in LoadedIds :
            powers[id].post_effects =
                IF EffectLinesOf(id) = {} THEN <<>>
                ELSE EffectsAt({i \in EffectLinesOf(id) : BlockOf(i) = LastEffectBlock(id)})

\* a file with two blocks of power 1 around a block of power 2 was loaded, and power 1
\* holds the effect of its second block only
C6_Witness ==
    /\ last.op = "loadPowers"
    /\ infile = <<IdLine(1), EffectLine("ward"), IdLine(2), IdLine(1), EffectLine("speed")>>
    /\ powers[1].post_effects = <<[id |-> "speed", magnitude |-> 1, duration |-> 5]>>

\* C6 as stated: post_effect lines of one id in two non-contiguous blocks end up as one
\* list holding the valid effects of both blocks in file order.
C6_AsStated ==
    last.op = "loadPowers" =>
        \A id \in LoadedIds :
            TwoBlocks(id) => powers[id].post_effects = EffectsAt(EffectLinesOf(id))

-----------------------------------------------------------------------------
(* Specification SpecCost: payPowerCost calls on a table loaded from        *)
(* powers.txt, and the menu draining used_equipped_items between them.      *)

\* the equipped-item requirement of a power as powers.txt states it
EquippedLine(item, quantity) ==
    [key |-> "requires_equipped_item", val |-> <<Spelled(item), Spelled(quantity)>>]

\* the powers.txt of two powers with the requirements given
CostFile(i1, q1, i2, q2) ==
    <<IdLine(1), EquippedLine(i1, q1), IdLine(2), EquippedLine(i2, q2)>>

InitCost ==
    /\ \E i1 \in {9, 11}, i2 \in {-1, 9}, q1 \in 0..MaxQuantity, q2 \in 1..MaxQuantity :
        /\ infile = CostFile(i1, q1, i2, q2)
        /\ powers = loadPowers([powers |-> NoPowers, errors |-> 0, ret |-> FALSE],
                               infile).powers
    /\ \E hero \in BOOLEAN, hp \in 1..MaxStat :
            stats = [NewStatBlock EXCEPT !.hero = hero, !.hp = hp]
    /\ colmap = MapWith({}, ActorTile)
    /\ used_equipped_items = <<>>
    /\ InitRest

\* a strategy pays the cost of power power_index
Pay ==
    /\ Len(used_equipped_items) <= MaxQueue
    /\ \E power_index \in 1..2 :
            Returns("payPowerCost", power_index, stats.pos, payPowerCost(World, power_index))
    /\ UNCHANGED infile

\* the menu consumes the pending equipped items and clears the queue
Drain ==
    /\ used_equipped_items # <<>>
    /\ used_equipped_items' = <<>>
    /\ last' = Event
    /\ UNCHANGED <<powers, stats, hazards, enemies, loot, used_items, party_buffs,
                   log_msg, colmap, inpt, snd, errors, trace, infile>>

NextCost ==
    \/ Pay
    \/ Drain

SpecCost == InitCost /\ [][NextCost]_vars

\* C7: between drains used_equipped_items holds each item id at most once, and paying for
\* a power whose requires_equipped_item is already pending appends nothing to the queue.
C7_PendingOnce ==
    /\ \A i, j \in 1..Len(used_equipped_items) :
            i # j => used_equipped_items[i] # used_equipped_items[j]
    /\ (/\ last.op = "payPowerCost"
        /\ \E k \in 1..Len(last.pre.used_equipped_items) :
                last.pre.used_equipped_items[k] = CalledPower.requires_equipped_item)
            => used_equipped_items = last.pre.used_equipped_items

\* a hero paid for a power whose equipped item was already pending
C7_Witness ==
    /\ last.op = "payPowerCost"
    /\ CallerStats.hero
    /\ CalledPower.requires_equipped_item = 9
    /\ CalledPower.requires_equipped_item_quantity = 1
    /\ last.pre.used_equipped_items = <<9>>
    /\ used_equipped_items = <<9>>

-----------------------------------------------------------------------------
(* Specification SpecRepeater: one activation of a repeater power on a map  *)
(* with at most one wall tile, toward any aim.                              *)

\* the maps with one wall tile or none
OneWallMaps ==
    {MapWith({}, ActorTile)} \cup {MapWith({t}, ActorTile) : t \in Tiles \ {ActorTile}}

InitRepeater ==
    /\ \E count \in 0..MaxCount, speed \in {500, 1000} :
            powers = [i \in 0..1 |->
                        IF i = 0 THEN DefaultPower
                        ELSE [DefaultPower EXCEPT !.type = POWTYPE_REPEATER,
                                                  !.count = count, !.speed = speed,
                                                  !.delay = 1, !.requires_mp = 1]]
    /\ stats = NewStatBlock
    /\ colmap \in OneWallMaps
    /\ used_equipped_items = <<>>
    /\ infile = <<>>
    /\ InitRest

NextRepeater == ActivateAnywhere

SpecRepeater == InitRepeater /\ [][NextRepeater]_vars

\* the hazards the recorded call pushed, in queue order
Pushed ==
    SubSeq(hazards, Len(last.pre.hazards) + 1, Len(hazards))

\* the point the repeater of the recorded call reaches with its k-th step
StepPoint(k) ==
    repeaterStep(CallerStats.pos,
                 repeaterSpeed(CalledPower, CallerStats.pos, last.target), k)

\* the steps of the recorded call, among its count, that land on a wall tile
WallSteps ==
    {k \in 1..CalledPower.count : wallAt(last.pre.colmap, StepPoint(k))}

\* C8: a repeater with count = n whose first wall along the stepped line is at step k
\* pushes k-1 hazards, at steps 1..k-1 in that order; with no wall within n steps it
\* pushes n hazards, at steps 1..n.
C8_RepeaterStopsAtWall ==
    (ActivatedPower /\ CalledPower.type = POWTYPE_REPEATER /\ last.ret = TRUE) =>
        /\ \A k \in WallSteps : (\A j \in WallSteps : k <= j) => Len(Pushed) = k - 1
        /\ WallSteps = {} => Len(Pushed) = CalledPower.count
        /\ \A i \in 1..Len(Pushed) : Pushed[i].pos = StepPoint(i)

\* a repeater of count 3 met its first wall on step 2 and pushed the hazard of step 1
C8_Witness ==
    /\ ActivatedPower
    /\ CalledPower.type = POWTYPE_REPEATER
    /\ CalledPower.count = 3
    /\ 2 \in WallSteps
    /\ 1 \notin WallSteps
    /\ Len(Pushed) = 1
    /\ Pushed[1].pos = StepPoint(1)

\* C37 (under Spec): a repeater pays before it walks the line: when its very first step
\* lands on a wall it pushes no hazard, still returns success, and has taken mp and hp
\* and queued the item uses exactly once.
C37_RepeaterPaysFirst ==
    (/\ PassedTests
     /\ CalledPower.type = POWTYPE_REPEATER
     /\ 1 \in WallSteps)
        => /\ last.ret = TRUE
           /\ hazards = last.pre.hazards
           /\ PaidOnceFrom(Max(0, CallerStats.hp - CalledPower.requires_hp))
           /\ CallerStats.hero =>
                used_equipped_items = last.pre.used_equipped_items
                    \o Repeat(CalledPower.requires_equipped_item,
                              CalledPower.requires_equipped_item_quantity)
           /\ snd = last.pre.snd + 1

\* a walled-in hero called a repeater that costs mp, hp and items: no hazard, success,
\* and the cost taken
C37_Witness ==
    /\ PassedTests
    /\ CalledPower.type = POWTYPE_REPEATER
    /\ 1 \in WallSteps
    /\ CallerStats.hero
    /\ CalledPower.requires_mp > 0
    /\ CalledPower.requires_hp > 0
    /\ last.ret = TRUE
    /\ hazards = <<>>
    /\ stats.mp = CallerStats.mp - CalledPower.requires_mp
    /\ stats.hp = CallerStats.hp - CalledPower.requires_hp
    /\ used_items = <<7, 7>>

-----------------------------------------------------------------------------
(* Specification SpecMissile: one activation of a missile power toward any  *)
(* aim, with and without angle variance.                                    *)

InitMissile ==
    /\ \E count \in 0..MaxCount, missile_angle \in {0, 15, 30}, variance \in {0, 2} :
        \E starting_pos \in {STARTING_POS_SOURCE, STARTING_POS_TARGET} :
            powers = [i \in 0..1 |->
                        IF i = 0 THEN DefaultPower
                        ELSE [DefaultPower EXCEPT !.type = POWTYPE_MISSILE,
                                                  !.count = count,
                                                  !.missile_angle = missile_angle,
                                                  !.angle_variance = variance,
                                                  !.starting_pos = starting_pos,
                                                  !.speed = 500, !.delay = 1]]
    /\ stats = NewStatBlock
    /\ colmap = MapWith({}, ActorTile)
    /\ used_equipped_items = <<>>
    /\ infile = <<>>
    /\ InitRest

NextMissile == ActivateAnywhere

SpecMissile == InitMissile /\ [][NextMissile]_vars

\* the bearing, in degrees, from the missile's source to the target of the recorded call:
\* the source is the target itself when starting_pos is target, else the actor
Bearing ==
    IF CalledPower.starting_pos = STARTING_POS_TARGET
    THEN calcTheta(last.target.x, last.target.y, last.target.x, last.target.y)
    ELSE calcTheta(CallerStats.pos.x, CallerStats.pos.y, last.target.x, last.target.y)

\* C9: without angle variance a missile power with count = n and missile_angle = a
\* pushes n hazards whose angles, in queue order i = 0..n-1, are theta + ((1-n)/2 + i)*a
\* (here doubled, in half-degrees): consecutive angles differ by a and the fan is
\* symmetric about the bearing theta.
C9_MissileFan ==
    (/\ ActivatedPower
     /\ CalledPower.type = POWTYPE_MISSILE
     /\ CalledPower.angle_variance = 0
     /\ last.ret = TRUE) =>
        /\ Len(Pushed) = CalledPower.count
        /\ \A i \in 0..(Len(Pushed) - 1) :
                Pushed[i + 1].angle =
                    2 * Bearing + ((1 - CalledPower.count) + 2 * i) * CalledPower.missile_angle
        /\ \A i \in 1..(Len(Pushed) - 1) :
                Pushed[i + 1].angle - Pushed[i].angle = 2 * CalledPower.missile_angle
        /\ Len(Pushed) > 0 => Pushed[1].angle + Pushed[Len(Pushed)].angle = 4 * Bearing

\* three missiles 30 degrees apart left at theta - 30, theta, theta + 30
C9_Witness ==
    /\ ActivatedPower
    /\ CalledPower.type = POWTYPE_MISSILE
    /\ CalledPower.angle_variance = 0
    /\ CalledPower.count = 3
    /\ CalledPower.missile_angle = 30
    /\ last.target # CallerStats.pos
    /\ Len(Pushed) = 3
    /\ Pushed[1].angle = 2 * Bearing - 60
    /\ Pushed[2].angle = 2 * Bearing
    /\ Pushed[3].angle = 2 * Bearing + 60

-----------------------------------------------------------------------------
(* Specification SpecStagger: one activation of a fixed, missile or         *)
(* repeater power of any count and delay, on a map with at most one wall.   *)

\* the power types whose activation pushes hazards
HazardTypes == {POWTYPE_FIXED, POWTYPE_MISSILE, POWTYPE_REPEATER}

InitStagger ==
    /\ \E type \in HazardTypes, count \in 0..MaxCount, delay \in 0..MaxDelay :
            powers = [i \in 0..1 |->
                        IF i = 0 THEN DefaultPower
                        ELSE [DefaultPower EXCEPT !.type = type,
                                                  !.use_hazard = (type = POWTYPE_FIXED),
                                                  !.count = count, !.delay = delay,
                                                  !.speed = 1000, !.requires_mp = 1]]
    /\ stats = NewStatBlock
    /\ colmap \in OneWallMaps
    /\ used_equipped_items = <<>>
    /\ infile = <<>>
    /\ InitRest

NextStagger == ActivateAnywhere

SpecStagger == InitStagger /\ [][NextStagger]_vars

\* C29: the hazards of one activation are appended to the queue in creation order and the
\* i-th of them (0-based) has delay_frames = i * delay; a fixed (use_hazard) or missile
\* activation pushes exactly count hazards, a repeater only those before its wall.
C29_Stagger ==
    (PassedTests /\ CalledPower.type \in HazardTypes) =>
        /\ Len(hazards) >= Len(last.pre.hazards)
        /\ SubSeq(hazards, 1, Len(last.pre.hazards)) = last.pre.hazards
        /\ \A i \in 1..Len(Pushed) : Pushed[i].delay_frames = (i - 1) * CalledPower.delay
        /\ (CalledPower.type = POWTYPE_MISSILE
            \/ (CalledPower.type = POWTYPE_FIXED /\ CalledPower.use_hazard))
                => Len(Pushed) = CalledPower.count

\* a repeater of count 3 and delay 2 met a wall on its third step and pushed two hazards,
\* delayed 0 and 2 frames
C29_Witness ==
    /\ PassedTests
    /\ CalledPower.type = POWTYPE_REPEATER
    /\ CalledPower.count = 3
    /\ CalledPower.delay = 2
    /\ 3 \in WallSteps
    /\ Len(Pushed) = 2
    /\ Pushed[1].delay_frames = 0
    /\ Pushed[2].delay_frames = 2

-----------------------------------------------------------------------------
(* Specification SpecVerify: verifyID calls on tables of any size, the      *)
(* empty table of a game without powers.txt among them.                     *)

InitVerify ==
    /\ \E n \in 0..MaxTable : powers = resize(NoPowers, n)
    /\ stats = NewStatBlock
    /\ colmap = MapWith({}, ActorTile)
    /\ used_equipped_items = <<>>
    /\ infile = <<>>
    /\ InitRest

\* the call verifyID(power_id, NULL, allow_zero) returns the world r
Verified(power_id, allow_zero, r) ==
    /\ Becomes(r)
    /\ last' = [Called("verifyID", power_id, Pt(0, 0), r) EXCEPT !.allow_zero = allow_zero]

\* a loader verifies an id it read
Verify ==
    /\ errors < MaxErrors
    /\ \E power_id \in -2..(MaxTable + 2), allow_zero \in BOOLEAN :
            Verified(power_id, allow_zero, verifyID(World, power_id, allow_zero))
    /\ UNCHANGED infile

NextVerify == Verify

SpecVerify == InitVerify /\ [][NextVerify]_vars

\* the id of the recorded verifyID call is one the table holds, zero counted if allowed
ValidId ==
    /\ (IF last.allow_zero THEN 0 ELSE 1) <= last.power_index
    /\ last.power_index < TableSize(last.pre.powers)

\* verifyID returns a valid id unchanged and reports nothing, and returns 0 with exactly
\* one error for any other id
VerifiedOrZero ==
    /\ ValidId => (last.ret = last.power_index /\ errors = last.pre.errors)
    /\ ~ValidId => (last.ret = 0 /\ errors = last.pre.errors + 1)

\* C10: verifyID(id, allow_zero) returns id unchanged when lower <= id < table size
\* (lower = 0 if allow_zero, else 1) and otherwise returns 0 and reports exactly one
\* error; on a table that is not empty the value returned lies in [0, table size), and
\* on the empty table it is 0.
C10_VerifyID ==
    last.op = "verifyID" =>
        /\ VerifiedOrZero
        /\ TableSize(powers) > 0 => (0 <= last.ret /\ last.ret < TableSize(powers))
        /\ TableSize(powers) = 0 => last.ret = 0

\* an id at the end of a table that holds powers was turned into 0, with one error
C10_Witness ==
    /\ last.op = "verifyID"
    /\ TableSize(powers) > 1
    /\ last.power_index = TableSize(powers)
    /\ last.ret = 0
    /\ errors = last.pre.errors + 1

\* C10 as stated: the value returned is never outside [0, table size).
C10_AsStated ==
    last.op = "verifyID" =>
        /\ VerifiedOrZero
        /\ 0 <= last.ret
        /\ last.ret < TableSize(powers)

-----------------------------------------------------------------------------
(* Specification SpecFields: loadPowers over well-formed files whose        *)
(* records write the single-valued fields of two powers, the records of one *)
(* id split over several id-blocks.                                         *)

\* a line writing one single-valued field
FieldLine(key, text) == [key |-> key, val |-> <<text>>]

\* the lines of the well-formed files
FieldLines ==
    {IdLine(1), IdLine(2),
     FieldLine("requires_mp", "1"), FieldLine("requires_mp", "2"),
     FieldLine("requires_hp", "1"),
     FieldLine("sacrifice", "true"), FieldLine("sacrifice", "false"),
     FieldLine("type", "missile")}

InitFields ==
    /\ powers = NoPowers
    /\ stats = NewStatBlock
    /\ colmap = MapWith({}, ActorTile)
    /\ used_equipped_items = <<>>
    /\ InitRest
    /\ infile \in UNION {FilesOf(FieldLines, n) : n \in 0..MaxFieldLines}

NextFields == Load

SpecFields == InitFields /\ [][NextFields]_vars

\* the lines that write field key of power id, by line number
WritesOf(id, key) ==
    {i \in 1..Len(infile) : infile[i].key = key /\ toInt(infile[BlockOf(i)].val[1]) = id}

\* the text of the last line that writes field key of power id
LastWritten(id, key) ==
    infile[CHOOSE i \in WritesOf(id, key) : \A j \in WritesOf(id, key) : j <= i].val[1]

\* C11: after loadPowers every single-valued field of a power holds the value of the last
\* line that wrote that field under the power's id, over all the id-blocks of that id; a
\* field no line wrote keeps its default, and a later block that does not mention a field
\* leaves the value an earlier block gave it.
C11_LastWritePerField ==
    last.op = "loadPowers" =>
        \A id \in LoadedIds :
            /\ powers[id].requires_mp =
                    IF WritesOf(id, "requires_mp") = {} THEN DefaultPower.requires_mp
                    ELSE toInt(LastWritten(id, "requires_mp"))
            /\ powers[id].requires_hp =
                    IF WritesOf(id, "requires_hp") = {} THEN DefaultPower.requires_hp
                    ELSE toInt(LastWritten(id, "requires_hp"))
            /\ powers[id].sacrifice =
                    IF WritesOf(id, "sacrifice") = {} THEN DefaultPower.sacrifice
                    ELSE toBool(LastWritten(id, "sacrifice"))
            /\ powers[id].type =
                    IF WritesOf(id, "type") = {} THEN DefaultPower.type
                    ELSE PowerTypes[LastWritten(id, "type")]

\* power 1 was written in two blocks around a block of power 2: the second block did not
\* mention requires_mp, and the value of the first is still there
C11_Witness ==
    /\ last.op = "loadPowers"
    /\ infile = <<IdLine(1), FieldLine("requires_mp", "2"), IdLine(2), IdLine(1)>>
    /\ powers[1].requires_mp = 2
    /\ TableSize(powers) = 3

-----------------------------------------------------------------------------
(* The lists of a power block by block, under SpecLoad.                     *)

\* the last line of the id-block that starts at the id line j
BlockEnd(j) ==
    CHOOSE e \in j..Len(infile) :
        /\ \A k \in (j + 1)..e : infile[k].key # "id"
        /\ e < Len(infile) => infile[e + 1].key = "id"

\* the lines with key key in the block that starts at the id line j
BlockLinesWith(j, key) ==
    {i \in (j + 1)..BlockEnd(j) : infile[i].key = key}

\* the loots the lines numbered in S name, in file order
LootAt(S) ==
    LET ix == Ascending(S)
    IN  [k \in 1..Len(ix) |-> infile[ix[k]].val[1]]

\* the table after the first k lines of the file
TableAfter(k) ==
    loadPowers(last.pre, SubSeq(infile, 1, k)).powers

\* power id as the first k lines of the file leave it
PowerAfter(k, id) ==
    IF id \in DOMAIN TableAfter(k) THEN TableAfter(k)[id] ELSE DefaultPower

ErrorsAfter(k) ==
    loadPowers(last.pre, SubSeq(infile, 1, k)).errors

\* the post_effect lines of the block at the id line j that name an unknown effect
UnknownEffectLines(j) ==
    {k \in BlockLinesWith(j, "post_effect") : ~isValidEffect(infile[k].val[1])}

\* C33: after loadPowers every entry of every power's post_effects has an id isValidEffect
\* accepts; a post_effect line naming an unknown effect is reported, appends nothing and
\* removes nothing appended earlier in its id-block.
C33_OnlyValidEffects ==
    last.op = "loadPowers" =>
        /\ \A id \in DOMAIN powers :
            \A i \in 1..Len(powers[id].post_effects) :
                isValidEffect(powers[id].post_effects[i].id)
        /\ \A j \in 1..Len(infile) :
            (infile[j].key = "id" /\ toInt(infile[j].val[1]) >= 1) =>
                \A k \in UnknownEffectLines(j) :
                    LET id == toInt(infile[j].val[1])
                    IN  /\ ErrorsAfter(k) = ErrorsAfter(k - 1) + 1
                        /\ PowerAfter(k, id).post_effects =
                                EffectsAt({i \in BlockLinesWith(j, "post_effect") : i < k})

\* a block named a known effect, an unknown one and a known one: both known effects are
\* in the list, in file order, and the unknown one was reported
C33_Witness ==
    /\ last.op = "loadPowers"
    /\ infile = <<IdLine(1), EffectLine("ward"), EffectLine("bogus"), EffectLine("speed")>>
    /\ Len(powers[1].post_effects) = 2
    /\ powers[1].post_effects[1].id = "ward"
    /\ powers[1].post_effects[2].id = "speed"
    /\ ErrorsAfter(3) = ErrorsAfter(2) + 1

-----------------------------------------------------------------------------
(* The chained power ids after a load, under SpecLoad.                      *)

\* the id the verify loop makes of the number a line gave
KeptOrZero(n) ==
    IF n \in 0..(TableSize(powers) - 1) THEN n ELSE 0

\* C18: after loadPowers the post_power and the wall_power of every slot are 0 or an
\* index i of the table with 1 <= i < table size; a value a line gave that is outside the
\* table is replaced by 0 and one inside it is kept.
C18_ChainIdsVerified ==
    last.op = "loadPowers" =>
        /\ \A i \in DOMAIN powers :
            /\ powers[i].post_power \in 0..(TableSize(powers) - 1)
            /\ powers[i].wall_power \in 0..(TableSize(powers) - 1)
        /\ \A id \in LoadedIds :
            /\ powers[id].post_power =
                    IF WritesOf(id, "post_power") = {} THEN 0
                    ELSE KeptOrZero(toInt(LastWritten(id, "post_power")))
            /\ powers[id].wall_power =
                    IF WritesOf(id, "wall_power") = {} THEN 0
                    ELSE KeptOrZero(toInt(LastWritten(id, "wall_power")))

\* a file gave power 1 a post_power past the end of the table and a wall_power inside it
C18_Witness ==
    /\ last.op = "loadPowers"
    /\ infile = <<IdLine(1), [key |-> "post_power", val |-> <<"2">>],
                  [key |-> "wall_power", val |-> <<"1">>]>>
    /\ TableSize(powers) = 2
    /\ powers[1].post_power = 0
    /\ powers[1].wall_power = 1

-----------------------------------------------------------------------------
(* Specification SpecBlock: an actor who starts out not blocking activates  *)
(* blocking powers one after another.                                       *)

InitBlock ==
    /\ \E m \in 0..MaxCost, h \in 0..MaxCost, sac \in BOOLEAN :
        powers = [i \in 0..2 |->
                    IF i = 0 THEN DefaultPower
                    ELSE IF i = 1
                    THEN Costly([DefaultPower EXCEPT !.type = POWTYPE_BLOCK,
                                                     !.post_effects = <<Ward>>,
                                                     !.requires_mp = m, !.requires_hp = h,
                                                     !.sacrifice = sac])
                    ELSE [DefaultPower EXCEPT !.type = POWTYPE_BLOCK,
                                              !.post_effects = <<Mend>>,
                                              !.passive_trigger = TRIGGER_BLOCK]]
    /\ \E hero \in BOOLEAN, hp \in 1..MaxStat, mp \in 0..MaxStat :
            stats = [NewStatBlock EXCEPT !.hero = hero, !.hp = hp, !.mp = mp]
    /\ colmap = MapWith({}, ActorTile)
    /\ used_equipped_items = <<>>
    /\ infile = <<>>
    /\ InitRest

\* the actor activates a blocking power, whether blocking already or not
BlockAgain ==
    /\ Len(stats.effects.list) <= MaxEffects
    /\ Len(used_items) <= MaxQueue
    /\ \E power_index \in 1..2 :
        \E rnd \in RandomsFor(powers[power_index]) :
            ActivateWith(power_index, stats.pos, rnd)

NextBlock == BlockAgain

SpecBlock == InitBlock /\ [][NextBlock]_vars

\* C19: a successful block sets triggered_block, and while the flag is set every further
\* activation of a blocking power returns false, adds no effect, pays no cost and leaves
\* the flag set.
C19_BlockOnce ==
    (ActivatedPower /\ CalledPower.type = POWTYPE_BLOCK) =>
        /\ last.ret = TRUE =>
                /\ ~CallerStats.effects.triggered_block
                /\ stats.effects.triggered_block
        /\ CallerStats.effects.triggered_block =>
                /\ last.ret = FALSE
                /\ stats.effects = CallerStats.effects
                /\ stats.mp = CallerStats.mp
                /\ stats.hp = CallerStats.hp
                /\ used_items = last.pre.used_items
                /\ used_equipped_items = last.pre.used_equipped_items
                /\ snd = last.pre.snd

\* after one block succeeded and added its effect, a hero who could pay for a second
\* blocking power activated it and failed
C19_Witness ==
    /\ PassedTests
    /\ CalledPower.type = POWTYPE_BLOCK
    /\ CallerStats.effects.triggered_block
    /\ CallerStats.effects.list # <<>>
    /\ CalledPower.requires_mp > 0
    /\ CalledPower.requires_hp > 0
    /\ last.ret = FALSE
    /\ stats.effects.triggered_block

-----------------------------------------------------------------------------
(* Specification SpecSingle: the powers menu unlocks powers one after       *)
(* another, each through activateSinglePassive.                             *)

\* an unconditional passive that costs mp, an on-hit passive, an active power, an
\* unconditional passive that costs nothing
SingleTable(m) ==
    [i \in 0..4 |->
        IF i = 1 THEN [PassivePower(-1, Ward) EXCEPT !.requires_mp = m]
        ELSE IF i = 2 THEN PassivePower(TRIGGER_HIT, Mend)
        ELSE IF i = 3 THEN [DefaultPower EXCEPT !.type = POWTYPE_FIXED, !.buff = TRUE,
                                                !.post_effects = <<Mend>>]
        ELSE IF i = 4 THEN PassivePower(-1, Mend)
        ELSE DefaultPower]

InitSingle ==
    /\ \E m \in 1..(MaxCost + 1) : powers = SingleTable(m)
    /\ \E mp \in 0..MaxStat, others \in BOOLEAN, hit \in BOOLEAN, hero \in BOOLEAN :
            stats = [NewStatBlock EXCEPT !.mp = mp, !.hero = hero,
                                         !.effects.triggered_others = others,
                                         !.effects.triggered_hit = hit]
    /\ colmap = MapWith({}, ActorTile)
    /\ used_equipped_items = <<>>
    /\ infile = <<>>
    /\ InitRest

\* MenuPowers unlocks power id: activateSinglePassive(&stats, id)
UnlockOne ==
    /\ Len(stats.effects.list) < MaxEffects
    /\ \E id \in 1..4 :
            Returns("activateSinglePassive", id, stats.pos,
                    activateSinglePassive(World, id, NoRandom, MaxDepth))
    /\ UNCHANGED infile

NextSingle == UnlockOne

SpecSingle == InitSingle /\ [][NextSingle]_vars

\* C21: activateSinglePassive(actor, id) on an unconditional passive invokes activate once,
\* for id, and leaves triggered_others and refresh_stats true, whether the activation
\* succeeded or not and whatever triggered_others was; on a power that is not passive or
\* has another trigger it activates nothing and leaves the actor as it was.
C21_SinglePassive ==
    (last.op = "activateSinglePassive") =>
        IF WasPassive(last.power_index, -1)
        THEN /\ trace = <<last.power_index>>
             /\ stats.effects.triggered_others
             /\ stats.refresh_stats
             /\ last.ret = FALSE => /\ stats.mp = CallerStats.mp
                                    /\ stats.effects.list = CallerStats.effects.list
             /\ last.ret = TRUE => Len(stats.effects.list) = Len(CallerStats.effects.list) + 1
        ELSE /\ trace = <<>>
             /\ stats = CallerStats
             /\ powers = last.pre.powers
             /\ hazards = last.pre.hazards
             /\ used_items = last.pre.used_items
             /\ snd = last.pre.snd

\* a hero short of mp unlocked the unconditional passive that costs mp: the activation
\* failed and the actor is marked all the same
C21_Witness ==
    /\ last.op = "activateSinglePassive"
    /\ WasPassive(last.power_index, -1)
    /\ ~CallerStats.effects.triggered_others
    /\ ~CallerStats.refresh_stats
    /\ CalledPower.requires_mp > CallerStats.mp
    /\ last.ret = FALSE
    /\ stats.effects.triggered_others
    /\ stats.refresh_stats

-----------------------------------------------------------------------------
(* Specification SpecHazard: initHazard called on a fresh hazard and then   *)
(* once more on the same hazard with the same power, actor and target.      *)

\* the powers whose hazards are initialised: base damage, traits, steal percentages,
\* animation choice and starting position as powers.txt may give them
HazardPowers ==
    { [DefaultPower EXCEPT !.type = t, !.base_damage = bd, !.trait_crits_impaired = st,
                           !.hp_steal = st, !.mp_steal = st * 2,
                           !.directional = vis = 1,
                           !.visual_random = (IF vis = 2 THEN 2 ELSE 0),
                           !.visual_option = (IF vis = 3 THEN 1 ELSE 0),
                           !.starting_pos = sp, !.target_neighbor = tn,
                           !.lifespan = 5, !.speed = 500, !.loot = <<"gold">>] :
        t \in {POWTYPE_FIXED, POWTYPE_MISSILE},
        bd \in {BASE_DAMAGE_NONE, BASE_DAMAGE_MELEE},
        st \in 0..MaxCost, vis \in 0..3,
        sp \in {STARTING_POS_SOURCE, STARTING_POS_TARGET}, tn \in 0..1 }

InitHazard ==
    /\ \E p \in HazardPowers : powers = [i \in 0..1 |-> IF i = 0 THEN DefaultPower ELSE p]
    /\ \E hero \in BOOLEAN : stats = [NewStatBlock EXCEPT !.hero = hero]
    /\ colmap = MapWith({}, ActorTile)
    /\ used_equipped_items = <<>>
    /\ infile = <<>>
    /\ InitRest

\* the values rand() yields in a call of initHazard on power p
HazardRandoms(p) ==
    {rnd \in RandomsFor(p) : rnd.pick \in 0..1}

\* the world in which the one hazard is haz
WithHazard(haz) ==
    [World EXCEPT !.hazards = <<haz>>, !.ret = TRUE]

\* initHazard(1, &stats, target, haz) on a hazard just constructed
FirstInit ==
    /\ last.op = "none"
    /\ \E target \in {stats.pos, Centre(2, 1)}, rnd \in HazardRandoms(powers[1]) :
            Returns("initHazard", 1, target,
                    WithHazard(initHazard(World, 1, target, NewHazard, rnd)))
    /\ UNCHANGED infile

\* initHazard called again on the same hazard with the arguments of the first call
SecondInit ==
    /\ last.op = "initHazard"
    /\ \E rnd \in HazardRandoms(powers[1]) :
            Returns("initHazard again", 1, last.target,
                    WithHazard(initHazard(World, 1, last.target, hazards[1], rnd)))
    /\ UNCHANGED infile

NextHazard ==
    \/ FirstInit
    \/ SecondInit

SpecHazard == InitHazard /\ [][NextHazard]_vars

\* the hazard a call of initHazard was handed, and the hazard it left
HazardBefore == last.pre.hazards[1]

HazardAfter == hazards[1]

\* C22 as the claim has it: a second call with the same arguments leaves every field of
\* the hazard at its value after the first call
C22_AsStated ==
    (last.op = "initHazard again") => HazardAfter = HazardBefore

\* C22, amended: a second call of initHazard with the same arguments overwrites the
\* hazard's fields with the values the first call gave them, except that
\* trait_crits_impaired, hp_steal and mp_steal each grow by the power's value once more,
\* and that the random choices (the animation row under visual_random, the tile under
\* target_neighbor) are drawn again.
C22_SecondInitAccumulates ==
    (last.op = "initHazard again") =>
        /\ HazardAfter.trait_crits_impaired =
                HazardBefore.trait_crits_impaired + CalledPower.trait_crits_impaired
        /\ HazardAfter.hp_steal = HazardBefore.hp_steal + CalledPower.hp_steal
        /\ HazardAfter.mp_steal = HazardBefore.mp_steal + CalledPower.mp_steal
        /\ HazardBefore.hp_steal = CalledPower.hp_steal
        /\ \/ HazardAfter.animationKind = HazardBefore.animationKind
           \/ ~CalledPower.directional /\ CalledPower.visual_random # 0
        /\ \/ HazardAfter.pos = HazardBefore.pos
           \/ CalledPower.target_neighbor > 0
        /\ [HazardAfter EXCEPT !.trait_crits_impaired = 0, !.hp_steal = 0, !.mp_steal = 0,
                               !.animationKind = 0, !.pos = Pt(0, 0)]
           = [HazardBefore EXCEPT !.trait_crits_impaired = 0, !.hp_steal = 0,
                                  !.mp_steal = 0, !.animationKind = 0, !.pos = Pt(0, 0)]

\* the second call on the hazard of a power that steals hp and mp and impairs crits left
\* each of the three at twice the power's value, and the damage as the first call set it
C22_Witness ==
    /\ last.op = "initHazard again"
    /\ CalledPower.hp_steal > 0
    /\ CalledPower.trait_crits_impaired > 0
    /\ CalledPower.base_damage = BASE_DAMAGE_MELEE
    /\ HazardAfter.hp_steal = 2 * CalledPower.hp_steal
    /\ HazardAfter.mp_steal = 2 * CalledPower.mp_steal
    /\ HazardAfter.trait_crits_impaired = 2 * CalledPower.trait_crits_impaired
    /\ HazardAfter.dmg_max = CallerStats.dmg_melee_max

-----------------------------------------------------------------------------
(* Specification SpecDamage: initHazard called on a fresh hazard with one   *)
(* power and then on the same hazard with a second power, as when an item's *)
(* power is layered onto a base power.                                      *)

\* the base_damage categories of a power
BaseDamages ==
    {BASE_DAMAGE_NONE, BASE_DAMAGE_MELEE, BASE_DAMAGE_RANGED, BASE_DAMAGE_MENT}

\* the melee damage ranges of the actor: armed, a minimum without a maximum, unarmed
MeleeRanges == {<<1, 3>>, <<1, 0>>, <<0, 0>>}

InitDamage ==
    /\ \E first \in BaseDamages, second \in BaseDamages :
            powers = [i \in 0..2 |->
                        IF i = 0 THEN DefaultPower
                        ELSE [DefaultPower EXCEPT
                                !.type = POWTYPE_MISSILE,
                                !.base_damage = IF i = 1 THEN first ELSE second]]
    /\ \E hero \in BOOLEAN, melee \in MeleeRanges :
            stats = [NewStatBlock EXCEPT !.hero = hero, !.dmg_melee_min = melee[1],
                                         !.dmg_melee_max = melee[2]]
    /\ colmap = MapWith({}, ActorTile)
    /\ used_equipped_items = <<>>
    /\ infile = <<>>
    /\ InitRest

\* initHazard(1, &stats, target, haz) on a hazard just constructed
ResolveDamage ==
    /\ last.op = "none"
    /\ \E target \in {stats.pos, Centre(2, 1)}, rnd \in HazardRandoms(powers[1]) :
            Returns("initHazard", 1, target,
                    WithHazard(initHazard(World, 1, target, NewHazard, rnd)))
    /\ UNCHANGED infile

\* initHazard(2, &stats, target, haz) on the hazard the first call initialised
LayerDamage ==
    /\ last.op = "initHazard"
    /\ \E rnd \in HazardRandoms(powers[2]) :
            Returns("initHazard layered", 2, last.target,
                    WithHazard(initHazard(World, 2, last.target, hazards[1], rnd)))
    /\ UNCHANGED infile

NextDamage ==
    \/ ResolveDamage
    \/ LayerDamage

SpecDamage == InitDamage /\ [][NextDamage]_vars

\* C32: a second initHazard call, with any power and base_damage category, on a hazard
\* whose damage range an earlier call set to a non-zero min or max leaves dmg_min and
\* dmg_max unchanged.
C32_DamageKept ==
    (/\ last.op = "initHazard layered"
     /\ (HazardBefore.dmg_min # 0 \/ HazardBefore.dmg_max # 0))
        => /\ HazardAfter.dmg_min = HazardBefore.dmg_min
           /\ HazardAfter.dmg_max = HazardBefore.dmg_max

-----------------------------------------------------------------------------
(* Specification SpecSkip: the constructor's loadPowers over files that    *)
(* hold id lines with invalid values and may start with any line.           *)

\* the lines of the files with invalid ids
SkipLines ==
    {IdLine(1), IdLine(0), IdLine(-1),
     FieldLine("type", "missile"), FieldLine("requires_mp", "2"), EffectLine("ward")}

InitSkip ==
    /\ powers = NoPowers
    /\ stats = NewStatBlock
    /\ colmap = MapWith({}, ActorTile)
    /\ used_equipped_items = <<>>
    /\ InitRest
    /\ infile \in UNION {[1..n -> SkipLines] : n \in 0..MaxSkipLines}

\* the constructor calls loadPowers() and the load runs to its end; an access outside the
\* table, if there was one, missed the table
LoadAny ==
    /\ last.op = "none"
    /\ Returns("loadPowers", 0, Pt(0, 0), loadPowers(World, infile))
    /\ UNCHANGED infile

\* the constructor calls loadPowers() and an access outside the table ends the process
LoadAbort ==
    /\ last.op = "none"
    /\ loadPowers(World, infile).stray
    /\ Returns("loadPowers aborted", 0, Pt(0, 0), [World EXCEPT !.stray = TRUE])
    /\ UNCHANGED infile

NextSkip ==
    \/ LoadAny
    \/ LoadAbort

SpecSkip == InitSkip /\ [][NextSkip]_vars

\* line i comes after some id line
HasId(i) ==
    \E j \in 1..i : infile[j].key = "id"

\* line i is no id line and the last id line before it has a value < 1
Skipped(i) ==
    /\ infile[i].key # "id"
    /\ HasId(i)
    /\ toInt(infile[BlockOf(i)].val[1]) < 1

\* the file without its skipped lines
Unskipped ==
    LET kept == Ascending({i \in 1..Len(infile) : ~Skipped(i)})
    IN  [k \in 1..Len(kept) |-> infile[kept[k]]]

\* the lines with key key that stand under a valid id line of power id
LinesUnder(id, key) ==
    {i \in 1..Len(infile) :
        /\ infile[i].key = key
        /\ HasId(i)
        /\ toInt(infile[BlockOf(i)].val[1]) = id}

\* C23: after an id line whose value is < 1 the non-id lines up to the next id line change
\* no field of any slot, and the next id line with a valid value resumes the assignment
\* into its own slot: the table is the one the file without the skipped lines gives.
C23_SkippedLinesWriteNothing ==
    (last.op = "loadPowers" /\ ~last.stray) =>
        /\ powers = loadPowers(last.pre, Unskipped).powers
        /\ 0 \in DOMAIN powers => powers[0] = DefaultPower
        /\ 1 \in DOMAIN powers =>
            /\ powers[1].requires_mp = IF LinesUnder(1, "requires_mp") = {} THEN 0 ELSE 2
            /\ powers[1].type = IF LinesUnder(1, "type") = {} THEN DefaultPower.type
                                ELSE POWTYPE_MISSILE
            /\ (LinesUnder(1, "post_effect") = {}) = (powers[1].post_effects = <<>>)

\* a file gave requires_mp under id 0 and a type under the id 1 that followed
C23_Witness ==
    /\ last.op = "loadPowers"
    /\ ~last.stray
    /\ infile = <<IdLine(0), FieldLine("requires_mp", "2"), IdLine(1),
                  FieldLine("type", "missile")>>
    /\ powers[1].type = POWTYPE_MISSILE
    /\ powers[1].requires_mp = 0
    /\ powers[0] = DefaultPower

\* C25: every field assignment of loadPowers goes to a slot inside the table whose index
\* is a valid id (>= 1) that a preceding id line introduced: no access falls outside the
\* table, and slot 0 is never written, not even by a line that comes before any id line.
C25_AssignmentsUnderValidId ==
    (last.op \in {"loadPowers", "loadPowers aborted"}) =>
        /\ ~last.stray
        /\ 0 \in DOMAIN powers => powers[0] = DefaultPower

-----------------------------------------------------------------------------
(* Specification SpecTrigger: scans of an actor who holds on-hit, on-block   *)
(* and on-death passives, between hits, deaths and blocks.                   *)

\* an on-hit, an on-block and an on-death passive, and a blocking power
TriggerTable ==
    [i \in 0..4 |->
        IF i = 1 THEN PassivePower(TRIGGER_HIT, Ward)
        ELSE IF i = 2 THEN PassivePower(TRIGGER_BLOCK, Ward)
        ELSE IF i = 3 THEN PassivePower(TRIGGER_DEATH, Ward)
        ELSE IF i = 4 THEN [DefaultPower EXCEPT !.type = POWTYPE_BLOCK]
        ELSE DefaultPower]

InitTrigger ==
    /\ powers = TriggerTable
    /\ \E pl \in {<<1, 2, 3>>, <<3, 1>>}, il \in {<<>>, <<2, 1>>} :
            stats = [NewStatBlock EXCEPT !.powers_passive = pl, !.powers_list_items = il]
    /\ colmap = MapWith({}, ActorTile)
    /\ used_equipped_items = <<>>
    /\ infile = <<>>
    /\ InitRest

\* StatBlock::logic calls activatePassives(&stats)
ScanTriggers ==
    /\ Len(stats.effects.list) < MaxEffects
    /\ Returns("activatePassives", 0, stats.pos, activatePassives(World, NoRandom, MaxDepth))
    /\ UNCHANGED infile

\* the hero starts to block: activate(4, &stats, pos)
Parry ==
    /\ ~stats.effects.triggered_block
    /\ ActivateWith(4, stats.pos, NoRandom)

\* the Avatar ends the block
Release ==
    /\ stats.effects.triggered_block
    /\ stats' = [stats EXCEPT !.effects.triggered_block = FALSE]
    /\ last' = Event
    /\ UNCHANGED <<powers, hazards, enemies, loot, used_items, used_equipped_items,
                   party_buffs, log_msg, colmap, inpt, snd, errors, trace, infile>>

NextTrigger ==
    \/ ScanTriggers
    \/ Parry
    \/ Release
    \/ Hurt

SpecTrigger == InitTrigger /\ [][NextTrigger]_vars

\* the passives with trigger tr that a scan activates when it finds the flag set or clear
Fired(tr, flag) ==
    IF flag
    THEN PassivesOf(last.pre.stats.powers_passive, tr)
         \o PassivesOf(last.pre.stats.powers_list_items, tr)
    ELSE <<>>

\* C26: a scan activates an on-hit (on-block, on-death) passive if and only if
\* triggered_hit (triggered_block, triggered_death) is set when the scan reaches it; the
\* scan clears the hit and death flags, so that an on-hit passive fires in the scan after
\* a hit and not in the scan after that unless the actor is hit again.
C26_FlagTriggers ==
    Scanned =>
        /\ PassivesOf(trace, TRIGGER_HIT) =
                Fired(TRIGGER_HIT, last.pre.stats.effects.triggered_hit)
        /\ PassivesOf(trace, TRIGGER_BLOCK) =
                Fired(TRIGGER_BLOCK, last.pre.stats.effects.triggered_block)
        /\ PassivesOf(trace, TRIGGER_DEATH) =
                Fired(TRIGGER_DEATH, last.pre.stats.effects.triggered_death)
        /\ ~stats.effects.triggered_hit
        /\ ~stats.effects.triggered_death

\* a scan of an actor whose hit flag an earlier scan had cleared: the earlier scan fired
\* the on-hit passive and this one fired none, while the on-block passive fired
C26_Witness ==
    /\ Scanned
    /\ stats.effects.list # <<>>
    /\ \E i \in 1..Len(last.pre.stats.effects.list) :
            last.pre.stats.effects.list[i].trigger = TRIGGER_HIT
    /\ ~last.pre.stats.effects.triggered_hit
    /\ last.pre.stats.effects.triggered_block
    /\ PassivesOf(last.pre.stats.powers_passive, TRIGGER_HIT) # <<>>
    /\ PassivesOf(trace, TRIGGER_HIT) = <<>>
    /\ PassivesOf(trace, TRIGGER_BLOCK) # <<>>

-----------------------------------------------------------------------------
(* Specification SpecEffectName: isValidEffect on the effect name of a      *)
(* post_effect line, for names of every kind and names of none.             *)

\* the effect names tried: "speed", the primary attributes, stat keys, element
\* resistances, effect ids, and strings that are none of these (effect types, near
\* misses in case or suffix, the empty string)
EffectNames ==
    {"speed", "physical", "mental", "offense", "defense"}
    \cup STAT_KEY \cup ElementResists
    \cup {"ward", "mend", "push", "glow"}
    \cup {"shield", "heal", "knockback", "bogus", "", "Speed", "fire", "hp_resist",
          "_resist", "resist", "earth_resist"}

InitEffectName ==
    /\ powers = NoPowers
    /\ stats = NewStatBlock
    /\ colmap = MapWith({}, ActorTile)
    /\ used_equipped_items = <<>>
    /\ InitRest
    /\ \E name \in EffectNames, magnitude \in {"1", "2"}, duration \in {"1", "5"} :
            infile = <<[key |-> "post_effect", val |-> <<name, magnitude, duration>>]>>

\* the loader asks isValidEffect(pe.id) about the name the line starts with
ValidateEffect ==
    /\ last.op = "none"
    /\ last' = [NoCall EXCEPT !.op = "isValidEffect", !.ret = isValidEffect(infile[1].val[1])]
    /\ UNCHANGED <<powers, stats, hazards, enemies, loot, used_items, used_equipped_items,
                   party_buffs, log_msg, colmap, inpt, snd, errors, trace, infile>>

NextEffectName == ValidateEffect

SpecEffectName == InitEffectName /\ [][NextEffectName]_vars

\* the ids of the entries of the effect table
EffectIds == {EffectTable[i].id : i \in 1..Len(EffectTable)}

\* C12: isValidEffect(s) is true exactly when s is "speed", a primary attribute
\* (physical, mental, offense, defense), a stat key, an element's "_resist" name or the id
\* of an entry of the effect table, and false for every other string.
C12_ValidEffectNames ==
    last.op = "isValidEffect" =>
        (last.ret <=>
            \/ infile[1].val[1] = "speed"
            \/ infile[1].val[1] \in {"physical", "mental", "offense", "defense"}
            \/ infile[1].val[1] \in STAT_KEY
            \/ infile[1].val[1] \in ElementResists
            \/ infile[1].val[1] \in EffectIds)

\* the id of an effect-table entry was accepted, and states exist where the type of that
\* entry, which is no id, was asked about
C12_Witness ==
    /\ last.op = "isValidEffect"
    /\ infile[1].val[1] = "ward"
    /\ "shield" \notin EffectIds
    /\ last.ret = TRUE

-----------------------------------------------------------------------------
(* Specification SpecChain: the constructor's loadPowers over files whose   *)
(* powers name post_powers, then one activate call on a loaded power.       *)

\* the lines of the files that chain powers
ChainLines ==
    {IdLine(1), IdLine(2), FieldLine("type", "fixed"), FieldLine("type", "spawn"),
     FieldLine("post_power", "1"), FieldLine("post_power", "2"),
     FieldLine("requires_mp", "2")}

InitChain ==
    /\ powers = NoPowers
    /\ \E hero \in BOOLEAN : stats = [NewStatBlock EXCEPT !.hero = hero]
    /\ colmap = MapWith({}, ActorTile)
    /\ used_equipped_items = <<>>
    /\ InitRest
    /\ infile \in UNION {FilesOf(ChainLines, n) : n \in 1..MaxSkipLines}

\* a caller invokes activate once on a power of the loaded table
ActivateLoaded ==
    /\ last.op = "loadPowers"
    /\ \E power_index \in DOMAIN powers \ {0} :
        \E rnd \in RandomsFor(powers[power_index]) :
            Returns("activate", power_index, stats.pos,
                    activate(World, power_index, stats.pos, rnd, MaxDepth))
    /\ UNCHANGED infile

NextChain ==
    \/ Load
    \/ ActivateLoaded

SpecChain == InitChain /\ [][NextChain]_vars

\* the post_power references of the table the recorded call started from return to a
\* power they left
ChainCycle ==
    LET t == last.pre.powers
    IN  \E i \in DOMAIN t \ {0} :
            \/ t[i].post_power = i
            \/ /\ t[i].post_power \in DOMAIN t \ {0}
               /\ t[t[i].post_power].post_power = i

\* C35: every activate call on a loaded table ends: the nested activations buff starts
\* through post_power never go deeper than the calls followed, also when a power's
\* post_power is its own id or the references form a cycle.
C35_ChainsEnd ==
    last.op = "activate" => ~last.overflow

====
